---- MODULE Spec2Model ----
(***************************************************************************)
(* A model of the proof-of-human-work web client: the canonicalizer and    *)
(* hasher (verify/crypto-utils.js), the verdict logic and result display   *)
(* of the verifier (verify/app.js, verify/verification.js), the key        *)
(* manager, the process tracker and the proof creator (create/app.js).     *)
(*                                                                         *)
(* Strings are modelled as sequences of one-character tokens.  Every       *)
(* component has its own specification (SpecCanon, SpecVerify, ...) over   *)
(* the same variables; Spec is their union.                                *)
(***************************************************************************)
EXTENDS Integers, Sequences, FiniteSets, TLC

VARIABLES
    \* ---- canonicalizer & hasher (verify/crypto-utils.js)
    text,           \* the text handed to hashText / hashFile
    canonPc,        \* "editing" | "hashed" | "rehashed"
    canonical,      \* canonicalizeText(text) of the last hashText call
    hash,           \* hashText(text) of the last call
    canonical2,     \* canonicalizeText(canonical)
    hash2,          \* hashText(canonical)
    jsonString,     \* the argument of the last canonicalizeJSON call
    jsonOut,        \* what that call returned or threw
    \* ---- verifier (verify/app.js, verify/verification.js)
    vPc,            \* position of performVerification
    vHash,          \* the leaf digest being verified
    result,         \* what verificationClient.verifyProof returned
    pavClaim,       \* what verificationClient.getPAVClaim returned
    shown,          \* what displayResults put on the page
    \* ---- key manager (PoHWKeyManager)
    keyPair,        \* this.keyPair: null or {privateKey, publicKey}
    did,            \* this.did: null or 'did:pohw:' + 16 hex characters
    storage,        \* localStorage['pohw-keys']
    exported,       \* what the last exportKeys() returned
    lastOp,         \* the last key-manager call, its input and how it ended
    edLib,          \* the Ed25519 library: "unloaded" | "loaded" | "failed"
    \* ---- process tracker (BrowserProcessTracker) and proof creator
    now,            \* Date.now(), in ms since the page was loaded
    sessionStart,   \* this.sessionStart, NullTime for null
    inputEvents,    \* this.inputEvents: {type, timestamp}
    editTimestamps, \* this.editTimestamps
    isTracking,     \* this.isTracking
    createPc,       \* "idle" | "signing" | "created" | "failed": where createProof is
    userSelectedProfile,  \* the value of the assistance-profile select it read
    attestation,    \* the attestation createProof built
    createError,    \* the error createProof showed
    submitCalls,    \* how often registryClient.submitAttestation was called
    \* ---- registry calls (VerificationClient, RegistryClient, RegistryDiscovery)
    netPc,          \* "idle" | "awaiting" | "settled": position of the call
    netCall,        \* the call in progress: client, method, argument, requests
    netFetch,       \* which of its requests is awaited
    netWaited,      \* how long that request has been awaited, in ticks
    netOutcome,     \* how the call ended
    loading,        \* the loading state set by setLoading
    discoveredNodes,  \* RegistryDiscovery.discoveredNodes
    nodeStatuses,   \* what the last checkAllNodesStatus returned
    \* ---- concurrent verifications (verify/app.js)
    registryOptions,  \* the values of the options of registrySelect
    registrySelect,   \* registrySelect.value
    clientUrl,        \* verificationClient.registryUrl of the module-level client
    verifyDisabled,   \* verifyButton.disabled
    runs,             \* the performVerification calls started so far
    page,             \* what the results section shows, and which run put it there
    \* ---- one text on the create page and on the verifier's tabs
    tabText,          \* the text: the textarea's value, the file's content
    creatorHash,      \* what createProof computed for it
    contentTabHash,   \* what performVerification computed on the content tab
    fileTabHash       \* what performVerification computed on the file tab

canonVars == <<text, canonPc, canonical, hash, canonical2, hash2, jsonString, jsonOut>>
verifyVars == <<vPc, vHash, result, pavClaim, shown>>

keyVars == <<keyPair, did, storage, exported, lastOp, edLib>>

trackerVars == <<now, sessionStart, inputEvents, editTimestamps, isTracking>>
createVars == <<createPc, userSelectedProfile, attestation, createError, submitCalls>>

netVars == <<netPc, netCall, netFetch, netWaited, netOutcome, loading>>
nodeVars == <<discoveredNodes, nodeStatuses>>
runVars == <<registryOptions, registrySelect, clientUrl, verifyDisabled, runs, page>>
tabVars == <<tabText, creatorHash, contentTabHash, fileTabHash>>

vars == <<canonVars, verifyVars, keyVars, trackerVars, createVars, netVars, nodeVars, runVars, tabVars>>

\* ------------------------------------------------------------------ bounds
\* longest text typed into the model
MaxTextLen == 4
\* most performVerification calls started on one page
MaxRuns == 2
\* longest Merkle proof path a registry answer carries
MaxProofLen == 2
\* digests are 0..MaxDigest
MaxDigest == 1
\* most entries of an environmentAttestation array
MaxEnvLen == 2
\* number of private keys randomPrivateKey can draw
MaxSeeds == 2
\* imported secrets are up to this many characters off the right length
ImportSlack == 1
\* most input events recorded in a session
MaxEvents == 6
\* members of the JSON objects handed to canonicalizeJSON
MaxMembers == 2
\* longest hash (without prefix) handed to a registry call
MaxHashLen == 2
\* ticks a request is watched while it waits for the node
MaxWait == 7
\* proofs created one after the other on one page
MaxProofs == 2

\* ------------------------------------------------------- generic helpers
RECURSIVE SeqSum(_)
SeqSum(s) == IF s = <<>> THEN 0 ELSE Head(s) + SeqSum(Tail(s))

Last(s) == s[Len(s)]

\* the concatenation of a sequence of sequences
RECURSIVE Flatten(_)
Flatten(ss) == IF ss = <<>> THEN <<>> ELSE Head(ss) \o Flatten(Tail(ss))

\* ------------------------------------------------ canonicalizer & hasher
CR  == "CR"
LF  == "LF"
SP  == "SP"
TAB == "TAB"
\* the characters texts are built from: a letter, the three whitespace
\* characters the canonicalizer looks at, and both line-ending characters
Chars == {"a", SP, TAB, CR, LF}

\* text.replace(/\r\n/g, '\n')
RECURSIVE ReplaceCRLF(_)
ReplaceCRLF(s) ==
    IF s = <<>> THEN <<>>
    ELSE IF Len(s) >= 2 /\ s[1] = CR /\ s[2] = LF
         THEN <<LF>> \o ReplaceCRLF(SubSeq(s, 3, Len(s)))
         ELSE <<s[1]>> \o ReplaceCRLF(Tail(s))

\* .replace(/\r/g, '\n')
ReplaceCR(s) == [i \in 1..Len(s) |-> IF s[i] = CR THEN LF ELSE s[i]]

\* normalized.replace(/\n+$/, ''): without the m flag $ is the end of input
RECURSIVE StripTrailingNewlines(_)
StripTrailingNewlines(s) ==
    IF s # <<>> /\ Last(s) = LF
    THEN StripTrailingNewlines(SubSeq(s, 1, Len(s) - 1))
    ELSE s

\* the run of spaces/tabs that starts at i reaches a line end: with the m
\* flag $ matches at the end of input and before every line terminator
RECURSIVE WsRunReachesLineEnd(_, _)
WsRunReachesLineEnd(s, i) ==
    IF i > Len(s) THEN TRUE
    ELSE IF s[i] \in {LF, CR} THEN TRUE
    ELSE IF s[i] \in {SP, TAB} THEN WsRunReachesLineEnd(s, i + 1)
    ELSE FALSE

\* normalized.replace(/[ \t]+$/gm, '')
RECURSIVE StripLineTrailingWsFrom(_, _)
StripLineTrailingWsFrom(s, i) ==
    IF i > Len(s) THEN <<>>
    ELSE IF s[i] \in {SP, TAB} /\ WsRunReachesLineEnd(s, i)
         THEN StripLineTrailingWsFrom(s, i + 1)
         ELSE <<s[i]>> \o StripLineTrailingWsFrom(s, i + 1)

StripLineTrailingWs(s) == StripLineTrailingWsFrom(s, 1)

canonicalizeText(t) ==
    StripLineTrailingWs(StripTrailingNewlines(ReplaceCR(ReplaceCRLF(t)))) \o <<LF>>

\* SHA-256 with the 0x prefix, as a collision-free function of the bytes hashed
hashSHA256(content) == <<"0x">> \o content

hashText(t) == hashSHA256(canonicalizeText(t))

NoHash == <<>>

NoJsonOut == [called |-> FALSE, error |-> "", value |-> <<>>]

CanonInit ==
    /\ text = <<>>
    /\ canonPc = "editing"
    /\ canonical = <<>>
    /\ hash = NoHash
    /\ canonical2 = <<>>
    /\ hash2 = NoHash
    /\ jsonString = <<>>
    /\ jsonOut = NoJsonOut

\* one more character of the text under the caller's hands
TypeChar(c) ==
    /\ canonPc = "editing"
    /\ Len(text) < MaxTextLen
    /\ text' = Append(text, c)
    /\ UNCHANGED <<canonPc, canonical, hash, canonical2, hash2, jsonString, jsonOut>>
    /\ UNCHANGED <<verifyVars, keyVars, trackerVars, createVars, netVars, nodeVars, runVars, tabVars>>

\* hashText(text)
HashText ==
    /\ canonPc = "editing"
    /\ canonical' = canonicalizeText(text)
    /\ hash' = hashSHA256(canonical')
    /\ canonPc' = "hashed"
    /\ UNCHANGED <<text, canonical2, hash2, jsonString, jsonOut>>
    /\ UNCHANGED <<verifyVars, keyVars, trackerVars, createVars, netVars, nodeVars, runVars, tabVars>>

\* hashText applied to the canonical form of the previous call
HashCanonical ==
    /\ canonPc = "hashed"
    /\ canonical2' = canonicalizeText(canonical)
    /\ hash2' = hashSHA256(canonical2')
    /\ canonPc' = "rehashed"
    /\ UNCHANGED <<text, canonical, hash, jsonString, jsonOut>>
    /\ UNCHANGED <<verifyVars, keyVars, trackerVars, createVars, netVars, nodeVars, runVars, tabVars>>

CanonNext ==
    \/ \E c \in Chars : TypeChar(c)
    \/ HashText
    \/ HashCanonical


\* ----------------------------------------------------------- canonicalizeJSON
\* JSON texts are sequences of tokens: braces, colon, comma, the string
\* literals "a" and "b", the numbers 1 and 2, null and a blank.  No text of
\* the model nests one object in another.
JsonKeys == {"\"a\"", "\"b\""}
JsonScalars == JsonKeys \cup {"1", "2", "null"}

\* JSON.parse skips whitespace between tokens
StripBlanks(t) == SelectSeq(t, LAMBDA x : x # " ")

\* the text between the braces is key : value , key : value ...
IsMemberList(inner) ==
    /\ Len(inner) % 4 = 3
    /\ \A i \in 1..Len(inner) :
          CASE i % 4 = 1 -> inner[i] \in JsonKeys
            [] i % 4 = 2 -> inner[i] = ":"
            [] i % 4 = 3 -> inner[i] \in JsonScalars
            [] OTHER -> inner[i] = ","

IsObjectText(t) ==
    /\ Len(t) >= 2
    /\ t[1] = "{"
    /\ t[Len(t)] = "}"
    /\ (Len(t) = 2 \/ IsMemberList(SubSeq(t, 2, Len(t) - 1)))

\* JSON.parse(jsonText) does not throw
Parseable(jsonText) ==
    LET t == StripBlanks(jsonText)
    IN  \/ Len(t) = 1 /\ t[1] \in JsonScalars
        \/ IsObjectText(t)

\* JSON.parse of an object text: the value of each key, a later member
\* overriding an earlier one of the same key
ParsedObject(t) ==
    LET inner == SubSeq(t, 2, Len(t) - 1)
        members == (Len(inner) + 1) \div 4
        keys == {inner[4 * m - 3] : m \in 1..members}
    IN  [k \in keys |->
            inner[4 * (CHOOSE m \in 1..members :
                          /\ inner[4 * m - 3] = k
                          /\ \A n \in 1..members : inner[4 * n - 3] = k => n <= m) - 1]]

\* Object.keys(obj).sort() for the keys of the model
SortedKeys(keys) ==
    (IF "\"a\"" \in keys THEN <<"\"a\"">> ELSE <<>>) \o (IF "\"b\"" \in keys THEN <<"\"b\"">> ELSE <<>>)

\* JSON.stringify(obj, keys): the members named by keys, in that order,
\* with nothing between the tokens
StringifyObject(obj, keys) ==
    <<"{">>
    \o Flatten([i \in 1..Len(keys) |->
                   (IF i > 1 THEN <<",">> ELSE <<>>) \o <<keys[i], ":", obj[keys[i]]>>])
    \o <<"}">>

\* canonicalizeJSON(jsonText): whatever is thrown inside (by JSON.parse,
\* or by Object.keys for null) is caught and the argument returned as it is
canonicalizeJSON(jsonText) ==
    LET t == StripBlanks(jsonText)
    IN  IF ~Parseable(jsonText) THEN [called |-> TRUE, error |-> "", value |-> jsonText]
        ELSE IF t = <<"null">> THEN [called |-> TRUE, error |-> "", value |-> jsonText]
        ELSE IF Len(t) = 1 THEN [called |-> TRUE, error |-> "", value |-> t]
        ELSE [called |-> TRUE, error |-> "",
              value |-> StringifyObject(ParsedObject(t), SortedKeys(DOMAIN ParsedObject(t)))]

\* s without its i-th token
WithoutToken(s, i) == SubSeq(s, 1, i - 1) \o SubSeq(s, i + 1, Len(s))

\* the member lists of the well-formed objects handed in: up to MaxMembers
\* members, keys in any order and repeated
MemberTexts(n) ==
    {Flatten([i \in 1..n |->
                 (IF i > 1 THEN <<",">> ELSE <<>>) \o <<ks[i], ":", vs[i]>>]) :
        ks \in [1..n -> JsonKeys], vs \in [1..n -> {"1", "2"}]}

WellFormedJson ==
    {<<x>> : x \in JsonScalars}
    \cup {<<" ", "null">>, <<"{", "}">>, <<"{", " ", "}">>}
    \cup UNION {{<<"{">> \o m \o <<"}">> : m \in MemberTexts(n)} : n \in 1..MaxMembers}

\* the texts handed to canonicalizeJSON: the well-formed ones and each of
\* them with one token missing
JsonTexts ==
    WellFormedJson \cup UNION {{WithoutToken(s, i) : i \in 1..Len(s)} : s \in WellFormedJson}

CanonicalizeJSON(s) ==
    /\ jsonString' = s
    /\ jsonOut' = canonicalizeJSON(s)
    /\ UNCHANGED <<text, canonPc, canonical, hash, canonical2, hash2>>
    /\ UNCHANGED <<verifyVars, keyVars, trackerVars, createVars, netVars, nodeVars, runVars, tabVars>>

JsonNext == \E s \in JsonTexts : CanonicalizeJSON(s)


\* ---------------------------------------------------------------- verifier
\* JavaScript values are modelled by tokens; these are the falsy ones
Falsy == {"undefined", "null", "false", ""}
Truthy(v) == v \notin Falsy

\* all sequences over S of length at most n
SeqsUpTo(S, n) == UNION {[1..k -> S] : k \in 0..n}

Digests == 0..MaxDigest

\* the strings an environmentAttestation is made of
EnvStrings == {"Human-Only", "AI-assisted", "web-interface"}

\* String.prototype.toLowerCase on EnvStrings
toLowerCase(e) ==
    CASE e = "Human-Only" -> "human-only"
      [] e = "AI-assisted" -> "ai-assisted"
      [] OTHER -> e

\* String.prototype.includes, for the two needles determineVerdict looks for
includes(e, needle) ==
    CASE needle = "human-only" -> e \in {"human-only"}
      [] needle = "ai-assisted" -> e \in {"ai-assisted"}
      [] OTHER -> FALSE

\* pav:environmentAttestation: absent, one string, an array of strings, or
\* a truthy value that is neither
EnvAttestations ==
    {[kind |-> "undefined", items |-> <<>>], [kind |-> "other", items |-> <<>>]}
    \cup {[kind |-> "string", items |-> <<e>>] : e \in EnvStrings}
    \cup {[kind |-> "array", items |-> a] : a \in SeqsUpTo(EnvStrings, MaxEnvLen)}

NullClaim ==
    [isNull |-> TRUE, processDigest |-> "undefined", entropyProof |-> "undefined",
     environmentAttestation |-> [kind |-> "undefined", items |-> <<>>]]

\* the claim documents GET /pohw/claim/{hash} can answer with
PAVClaims ==
    [isNull : {FALSE},
     processDigest : {"undefined", "0xpd"},
     entropyProof : {"undefined", "zkp:entropy>0.350"},
     environmentAttestation : EnvAttestations]

NoProof == [present |-> FALSE, path |-> <<>>]
NoRoot == [present |-> FALSE, digest |-> 0]

\* the bodies GET /pohw/verify/{hash} can answer with: every combination of
\* valid, signer and did for a proof that is not batched yet, and every
\* Merkle path and root for a signed one
UnbatchedBodies ==
    [valid : {"true", "false", "undefined"},
     signer : {"undefined", "", "did:pohw:s"},
     did : {"undefined", "", "did:pohw:d"},
     error : {"undefined"},
     merkle_proof : {NoProof},
     merkle_root : {NoRoot}]

BatchedBodies ==
    [valid : {"true", "false", "undefined"},
     signer : {"did:pohw:s"},
     did : {"undefined"},
     error : {"undefined"},
     merkle_proof : {NoProof} \cup {[present |-> TRUE, path |-> q] : q \in SeqsUpTo(Digests, MaxProofLen)},
     merkle_root : {NoRoot} \cup {[present |-> TRUE, digest |-> d] : d \in Digests}]

VerifyBodies == UnbatchedBodies \cup BatchedBodies

\* the result objects verifyProof builds itself
FailedResult(msg) ==
    [valid |-> "false", signer |-> "undefined", did |-> "undefined", error |-> msg,
     merkle_proof |-> NoProof, merkle_root |-> NoRoot]

NoResult == FailedResult("undefined")

\* how the request of verifyProof can end
VerifyOutcomes == {"localhost", "http404", "httpError", "fetchFailed", "fetchThrew", "ok"}

\* VerificationClient.verifyProof, given how the request ended and the body
verifyProof(outcome, body) ==
    CASE outcome = "localhost" -> FailedResult("Cannot access localhost from production site")
      [] outcome = "http404" -> FailedResult("Proof not found in registry")
      [] outcome = "httpError" -> FailedResult("HTTP 500")
      [] outcome = "fetchFailed" -> FailedResult("Cannot connect to registry")
      [] outcome = "fetchThrew" -> FailedResult("Failed to verify proof")
      [] OTHER -> body

hasProcessDigest(p) == ~p.isNull /\ Truthy(p.processDigest)
hasEntropyProof(p) == ~p.isNull /\ Truthy(p.entropyProof)

\* envAttestation && ((Array.isArray && some(includes)) || (string && includes))
envSays(p, needle) ==
    LET env == p.environmentAttestation IN
    /\ ~p.isNull
    /\ env.kind # "undefined"
    /\ \/ /\ env.kind = "array"
          /\ \E i \in 1..Len(env.items) : includes(toLowerCase(env.items[i]), needle)
       \/ /\ env.kind = "string"
          /\ includes(toLowerCase(env.items[1]), needle)

isHumanOnly(p) == envSays(p, "human-only")
isAIAssisted(p) == envSays(p, "ai-assisted")

\* determineVerdict without its first test: validity is not looked at
determineVerdictIgnoringValid(r, p) ==
    IF hasProcessDigest(p) /\ hasEntropyProof(p) /\ isHumanOnly(p)
    THEN [type |-> "human-authored",
          explanation |-> "Verified human work with process evidence and human-only attestation"]
    ELSE IF Truthy(r.signer) \/ Truthy(r.did)
    THEN [type |-> "human-approved",
          explanation |-> "Verified human signature (limited process evidence)"]
    ELSE [type |-> "indeterminate", explanation |-> "Proof not found or invalid"]

\* determineVerdict with the AI-assisted test moved in front of the
\* human-authored one
determineVerdictAIFirst(r, p) ==
    IF ~Truthy(r.valid)
    THEN [type |-> "indeterminate", explanation |-> "Proof not found or invalid"]
    ELSE IF (Truthy(r.signer) \/ Truthy(r.did)) /\ isAIAssisted(p)
    THEN [type |-> "ai-assisted",
          explanation |-> "Human-approved work with AI assistance disclosed"]
    ELSE IF hasProcessDigest(p) /\ hasEntropyProof(p) /\ isHumanOnly(p)
    THEN [type |-> "human-authored",
          explanation |-> "Verified human work with process evidence and human-only attestation"]
    ELSE IF Truthy(r.signer) \/ Truthy(r.did)
    THEN IF hasProcessDigest(p) \/ hasEntropyProof(p)
         THEN [type |-> "human-approved",
               explanation |-> "Verified human signature with process evidence"]
         ELSE [type |-> "human-approved",
               explanation |-> "Verified human signature (limited process evidence)"]
    ELSE [type |-> "indeterminate",
          explanation |-> "Proof is valid but lacks sufficient evidence to determine authorship type"]

determineVerdict(r, p) ==
    IF ~Truthy(r.valid)
    THEN [type |-> "indeterminate", explanation |-> "Proof not found or invalid"]
    ELSE IF hasProcessDigest(p) /\ hasEntropyProof(p) /\ isHumanOnly(p)
    THEN [type |-> "human-authored",
          explanation |-> "Verified human work with process evidence and human-only attestation"]
    ELSE IF Truthy(r.signer) \/ Truthy(r.did)
    THEN IF isAIAssisted(p)
         THEN [type |-> "ai-assisted",
               explanation |-> "Human-approved work with AI assistance disclosed"]
         ELSE IF hasProcessDigest(p) \/ hasEntropyProof(p)
         THEN [type |-> "human-approved",
               explanation |-> "Verified human signature with process evidence"]
         ELSE [type |-> "human-approved",
               explanation |-> "Verified human signature (limited process evidence)"]
    ELSE [type |-> "indeterminate",
          explanation |-> "Proof is valid but lacks sufficient evidence to determine authorship type"]

\* the part of the page displayResults writes
displayResults(r, p) ==
    [badge |-> IF Truthy(r.valid) THEN "VALID" ELSE "INVALID",
     status |-> IF Truthy(r.valid) THEN "VALID PROOF"
                ELSE IF Truthy(r.error) THEN r.error ELSE "INVALID",
     verdict |-> determineVerdict(r, p),
     merkleRoot |-> r.merkle_root,
     proofPath |-> IF r.merkle_proof.present /\ Len(r.merkle_proof.path) > 0
                   THEN r.merkle_proof.path ELSE <<>>]

NothingShown ==
    [badge |-> "", status |-> "",
     verdict |-> [type |-> "", explanation |-> ""],
     merkleRoot |-> NoRoot, proofPath |-> <<>>]

VerifyInit ==
    /\ vPc = "idle"
    /\ vHash = 0
    /\ result = NoResult
    /\ pavClaim = NullClaim
    /\ shown = NothingShown

\* performVerification up to the call of verifyProof: the hash is there,
\* the old results are hidden
StartVerification(h) ==
    /\ vPc \in {"idle", "shown"}
    /\ vHash' = h
    /\ result' = NoResult
    /\ pavClaim' = NullClaim
    /\ shown' = NothingShown
    /\ vPc' = "verifying"
    /\ UNCHANGED <<canonVars, keyVars, trackerVars, createVars, netVars, nodeVars, runVars, tabVars>>

\* const result = await verificationClient.verifyProof(hash)
VerifyProofReturns(outcome, body) ==
    /\ vPc = "verifying"
    /\ result' = verifyProof(outcome, body)
    /\ vPc' = "claiming"
    /\ UNCHANGED <<vHash, pavClaim, shown>>
    /\ UNCHANGED <<canonVars, keyVars, trackerVars, createVars, netVars, nodeVars, runVars, tabVars>>

\* const pavClaim = await verificationClient.getPAVClaim(hash): null on any
\* failure, the body otherwise
GetPAVClaimReturns(p) ==
    /\ vPc = "claiming"
    /\ pavClaim' = p
    /\ vPc' = "displaying"
    /\ UNCHANGED <<vHash, result, shown>>
    /\ UNCHANGED <<canonVars, keyVars, trackerVars, createVars, netVars, nodeVars, runVars, tabVars>>

\* displayResults(result, hash, proofDetails, anchors, pavClaim, ...)
DisplayResults ==
    /\ vPc = "displaying"
    /\ shown' = displayResults(result, pavClaim)
    /\ vPc' = "shown"
    /\ UNCHANGED <<vHash, result, pavClaim>>
    /\ UNCHANGED <<canonVars, keyVars, trackerVars, createVars, netVars, nodeVars, runVars, tabVars>>

VerifyNext ==
    \/ \E h \in Digests : StartVerification(h)
    \/ \E o \in VerifyOutcomes, b \in VerifyBodies : VerifyProofReturns(o, b)
    \/ \E p \in PAVClaims \cup {NullClaim} : GetPAVClaimReturns(p)
    \/ DisplayResults

\* -------------------------------------------------------------- key manager
\* an Ed25519 private key is 32 bytes
KeyLen == 32

HexDigits == <<"0", "1", "2", "3", "4", "5", "6", "7", "8", "9", "a", "b", "c", "d", "e", "f">>
HexDigitSet == {HexDigits[i] : i \in 1..16}
HexValueOf == [c \in HexDigitSet |-> (CHOOSE i \in 1..16 : HexDigits[i] = c) - 1]
IsHexDigit(c) == c \in HexDigitSet
HexValue(c) == HexValueOf[c]

Rep(c, n) == [i \in 1..n |-> c]

\* b.toString(16) without the padding: one character for a byte below 16
ByteToHexUnpadded(b) ==
    IF b < 16 THEN <<HexDigits[b + 1]>>
    ELSE <<HexDigits[(b \div 16) + 1], HexDigits[(b % 16) + 1]>>

\* the hex form of a byte sequence with .padStart(2, '0') left out
BytesToHexUnpadded(bytes) == Flatten([i \in 1..Len(bytes) |-> ByteToHexUnpadded(bytes[i])])

\* Array.from(bytes).map(b => b.toString(16).padStart(2, '0')).join(''):
\* two characters a byte, the high half first
BytesToHex(bytes) ==
    [k \in 1..(2 * Len(bytes)) |->
        LET b == bytes[(k + 1) \div 2]
        IN  IF k % 2 = 1 THEN HexDigits[(b \div 16) + 1] ELSE HexDigits[(b % 16) + 1]]

\* ed25519.utils.randomPrivateKey(): the key drawn for a seed of the
\* random source; the bytes fall on both sides of 16
randomPrivateKey(seed) == [i \in 1..KeyLen |-> (seed * 37 + i * 11) % 256]

\* ed25519.getPublicKey: a deterministic, one-to-one function of the
\* private key
getPublicKey(priv) == [i \in 1..Len(priv) |-> (priv[i] * 5 + i + 3) % 256]

\* ed25519.sign / ed25519.verify, idealised: a signature names the message
\* and the key pair that made it, and verifies under that public key only
ed25519Sign(msg, priv) == [msg |-> msg, by |-> getPublicKey(priv)]
ed25519Verify(sig, msg, pub) == sig.msg = msg /\ sig.by = pub

\* did:pohw: followed by the first 16 hex characters of the public key
generateDID(publicKey) == <<"did:pohw:">> \o SubSeq(BytesToHex(publicKey), 1, 16)

\* privateKeyHex.replace(/^0x/, '')
StripHexPrefix(h) ==
    IF Len(h) >= 2 /\ h[1] = "0" /\ h[2] = "x" THEN SubSeq(h, 3, Len(h)) ELSE h

\* String.prototype.trim, for the one whitespace character of the model
RECURSIVE TrimStart(_)
TrimStart(h) == IF h # <<>> /\ Head(h) = " " THEN TrimStart(Tail(h)) ELSE h
RECURSIVE TrimEnd(_)
TrimEnd(h) == IF h # <<>> /\ Last(h) = " " THEN TrimEnd(SubSeq(h, 1, Len(h) - 1)) ELSE h
Trim(h) == TrimEnd(TrimStart(h))

\* hex.match(/.{1,2}/g): chunks of two characters, a last one of one; null
\* (here <<>>) when there is nothing to match
MatchPairs(h) ==
    [i \in 1..((Len(h) + 1) \div 2) |->
        SubSeq(h, 2 * i - 1, IF 2 * i <= Len(h) THEN 2 * i ELSE Len(h))]

NaN == -1

\* the value of the longest prefix of hex digits, NaN when it is empty
RECURSIVE ParseHexPrefix(_, _)
ParseHexPrefix(t, acc) ==
    IF t = <<>> \/ ~IsHexDigit(Head(t)) THEN acc
    ELSE ParseHexPrefix(Tail(t), (IF acc = NaN THEN 0 ELSE acc * 16) + HexValue(Head(t)))

\* parseInt(chunk, 16): leading whitespace and a 0x prefix are skipped, then
\* the longest prefix of hex digits is read
parseInt16(chunk) == ParseHexPrefix(StripHexPrefix(TrimStart(chunk)), NaN)

\* new Uint8Array(values): NaN is stored as 0, anything else modulo 256
ToUint8(v) == IF v = NaN THEN 0 ELSE v % 256

\* new Uint8Array(hex.match(/.{1,2}/g).map(byte => parseInt(byte, 16)))
HexToBytes(h) ==
    LET chunks == MatchPairs(h) IN [i \in 1..Len(chunks) |-> ToUint8(parseInt16(chunks[i]))]

NoKeyPair == [present |-> FALSE, privateKey |-> <<>>, publicKey |-> <<>>]
NoDid == <<>>
NoStorage == [present |-> FALSE, privateKey |-> <<>>, publicKey |-> <<>>, did |-> <<>>]
NoExport == [present |-> FALSE, privateKey |-> <<>>, publicKey |-> <<>>, did |-> <<>>]
NoOp == [op |-> "none", input |-> <<>>, fresh |-> FALSE, error |-> ""]

KeyPairOf(priv) == [present |-> TRUE, privateKey |-> priv, publicKey |-> getPublicKey(priv)]

\* the record saveKeys writes (createdAt left out)
StoredRecord(kp, d) ==
    [present |-> TRUE, privateKey |-> kp.privateKey, publicKey |-> kp.publicKey, did |-> d]

KeyInit ==
    /\ keyPair = NoKeyPair
    /\ did = NoDid
    /\ storage = NoStorage
    /\ exported = NoExport
    /\ lastOp = NoOp
    /\ edLib = "unloaded"

\* ensureEd25519Library(): returns at once when the library is there, and
\* hands out the one cached loading promise (window._ed25519Loading)
\* otherwise, so that a failed load fails every later call as well
ensureEd25519Library(loads) ==
    IF edLib = "unloaded" THEN (IF loads THEN "loaded" ELSE "failed") ELSE edLib

\* generateKeys(): loads tells whether a first load of the library works,
\* saveOk whether localStorage.setItem goes through
GenerateKeys(seed, loads, saveOk) ==
    /\ edLib' = ensureEd25519Library(loads)
    /\ IF edLib' = "failed"
       THEN /\ lastOp' = [op |-> "generate", input |-> <<>>, fresh |-> ~keyPair.present,
                          error |-> "LibraryNotLoaded"]
            /\ UNCHANGED <<keyPair, did, storage>>
       ELSE \E kp \in {KeyPairOf(randomPrivateKey(seed))} :
            \E d \in {generateDID(kp.publicKey)} :
                /\ keyPair' = kp
                /\ did' = d
                /\ storage' = IF saveOk THEN StoredRecord(kp, d) ELSE storage
                /\ lastOp' = [op |-> "generate", input |-> <<>>, fresh |-> ~keyPair.present,
                              error |-> IF saveOk THEN "" ELSE "SaveFailed"]
    /\ UNCHANGED exported
    /\ UNCHANGED <<canonVars, verifyVars, trackerVars, createVars, netVars, nodeVars, runVars, tabVars>>

\* what importKeys throws for a secret, "" when it goes through to saveKeys
importFailure(privateKeyHex, lib) ==
    LET hex == Trim(StripHexPrefix(privateKeyHex)) IN
    IF lib = "failed" THEN "LibraryNotLoaded"
    ELSE IF hex = <<>> THEN "TypeError"       \* match() gave null
    ELSE IF Len(HexToBytes(hex)) # KeyLen THEN "InvalidKeyLength"
    ELSE ""

\* importKeys(privateKeyHex)
ImportKeys(privateKeyHex, loads, saveOk) ==
    /\ edLib' = ensureEd25519Library(loads)
    /\ IF importFailure(privateKeyHex, edLib') # ""
       THEN /\ lastOp' = [op |-> "import", input |-> privateKeyHex,
                          fresh |-> ~keyPair.present,
                          error |-> importFailure(privateKeyHex, edLib')]
            /\ UNCHANGED <<keyPair, did, storage>>
       ELSE \E kp \in {KeyPairOf(HexToBytes(Trim(StripHexPrefix(privateKeyHex))))} :
            \E d \in {generateDID(kp.publicKey)} :
                /\ keyPair' = kp
                /\ did' = d
                /\ storage' = IF saveOk THEN StoredRecord(kp, d) ELSE storage
                /\ lastOp' = [op |-> "import", input |-> privateKeyHex,
                              fresh |-> ~keyPair.present,
                              error |-> IF saveOk THEN "" ELSE "SaveFailed"]
    /\ UNCHANGED exported
    /\ UNCHANGED <<canonVars, verifyVars, trackerVars, createVars, netVars, nodeVars, runVars, tabVars>>

\* loadKeys() as it would be if the stored record were taken at its word
LoadKeysTrustingStorage(loads) ==
    /\ IF ~storage.present
       THEN /\ lastOp' = [op |-> "load", input |-> <<>>, fresh |-> ~keyPair.present,
                          error |-> "null"]
            /\ UNCHANGED <<keyPair, did, edLib>>
       ELSE /\ edLib' = ensureEd25519Library(loads)
            /\ IF edLib' = "failed"
               THEN /\ lastOp' = [op |-> "load", input |-> <<>>,
                                  fresh |-> ~keyPair.present, error |-> "null"]
                    /\ UNCHANGED <<keyPair, did>>
               ELSE /\ keyPair' = [present |-> TRUE, privateKey |-> storage.privateKey,
                                   publicKey |-> storage.publicKey]
                    /\ did' = storage.did
                    /\ lastOp' = [op |-> "load", input |-> <<>>,
                                  fresh |-> ~keyPair.present, error |-> ""]
    /\ UNCHANGED <<storage, exported>>
    /\ UNCHANGED <<canonVars, verifyVars, trackerVars, createVars, netVars, nodeVars, runVars, tabVars>>

\* loadKeys(): the public key and the did are derived again from the stored
\* private key; any failure is swallowed and null returned
LoadKeys(loads) ==
    /\ IF ~storage.present
       THEN /\ lastOp' = [op |-> "load", input |-> <<>>, fresh |-> ~keyPair.present,
                          error |-> "null"]
            /\ UNCHANGED <<keyPair, did, edLib>>
       ELSE /\ edLib' = ensureEd25519Library(loads)
            /\ IF edLib' = "failed"
               THEN /\ lastOp' = [op |-> "load", input |-> <<>>,
                                  fresh |-> ~keyPair.present, error |-> "null"]
                    /\ UNCHANGED <<keyPair, did>>
               ELSE \E kp \in {KeyPairOf(storage.privateKey)} :
                        /\ keyPair' = kp
                        /\ did' = generateDID(kp.publicKey)
                        /\ lastOp' = [op |-> "load", input |-> <<>>,
                                      fresh |-> ~keyPair.present, error |-> ""]
    /\ UNCHANGED <<storage, exported>>
    /\ UNCHANGED <<canonVars, verifyVars, trackerVars, createVars, netVars, nodeVars, runVars, tabVars>>

\* what someone with access to localStorage writes over the did and over
\* the publicKey of the stored record
AlteredDid == <<"did:pohw:">> \o Rep("0", 16)
AlteredPublicKey == Rep(0, KeyLen)

\* localStorage.setItem from outside the key manager: the did or the
\* publicKey field of the stored record is replaced
TamperStorage(field) ==
    /\ storage.present
    /\ storage' = IF field = "did" THEN [storage EXCEPT !.did = AlteredDid]
                  ELSE [storage EXCEPT !.publicKey = AlteredPublicKey]
    /\ storage' # storage
    /\ lastOp' = [op |-> "tamper", input |-> <<>>, fresh |-> ~keyPair.present, error |-> ""]
    /\ UNCHANGED <<keyPair, did, exported, edLib>>
    /\ UNCHANGED <<canonVars, verifyVars, trackerVars, createVars, netVars, nodeVars, runVars, tabVars>>

\* exportKeys()
ExportKeys ==
    /\ IF ~keyPair.present
       THEN /\ lastOp' = [op |-> "export", input |-> <<>>, fresh |-> TRUE,
                          error |-> "No keys loaded"]
            /\ UNCHANGED exported
       ELSE /\ exported' = [present |-> TRUE,
                            privateKey |-> BytesToHex(keyPair.privateKey),
                            publicKey |-> BytesToHex(keyPair.publicKey),
                            did |-> did]
            /\ lastOp' = [op |-> "export", input |-> <<>>, fresh |-> FALSE, error |-> ""]
    /\ UNCHANGED <<keyPair, did, storage, edLib>>
    /\ UNCHANGED <<canonVars, verifyVars, trackerVars, createVars, netVars, nodeVars, runVars, tabVars>>

\* clearKeys(): memory only, the stored record stays
ClearKeys ==
    /\ keyPair' = NoKeyPair
    /\ did' = NoDid
    /\ lastOp' = [op |-> "clear", input |-> <<>>, fresh |-> ~keyPair.present, error |-> ""]
    /\ UNCHANGED <<storage, exported, edLib>>
    /\ UNCHANGED <<canonVars, verifyVars, trackerVars, createVars, netVars, nodeVars, runVars, tabVars>>

\* sign(message) without the test for a key pair
signUnchecked(message) == ed25519Sign(message, keyPair.privateKey)

\* sign(message) with the key held now; <<>> stands for the thrown error
sign(message) ==
    IF ~keyPair.present THEN [msg |-> "No keys loaded", by |-> <<>>]
    ELSE ed25519Sign(message, keyPair.privateKey)

\* the secrets handed to importKeys: runs of a hex digit of about the right
\* length, a one-character input, 64 characters that are no hex digits, a
\* good secret with a 0x prefix or a space after it, and the secret of the
\* last export with and without the prefix (the import dialog never passes
\* an empty secret)
ImportLengths == {1} \cup ((2 * KeyLen - ImportSlack)..(2 * KeyLen + ImportSlack))
ImportInputs ==
    {Rep("a", n) : n \in ImportLengths}
    \cup {Rep("z", 2 * KeyLen)}
    \cup {<<"0", "x">> \o Rep("3", 2 * KeyLen), Rep("3", 2 * KeyLen) \o <<" ">>}
    \cup (IF exported.present
          THEN {exported.privateKey, <<"0", "x">> \o exported.privateKey}
          ELSE {})

\* whether a first load of the library works is open only while it is unloaded
LoadChoices == IF edLib = "unloaded" THEN BOOLEAN ELSE {TRUE}

KeyNext ==
    \/ \E seed \in 1..MaxSeeds, loads \in LoadChoices, saveOk \in BOOLEAN :
          GenerateKeys(seed, loads, saveOk)
    \/ \E h \in ImportInputs, loads \in LoadChoices, saveOk \in BOOLEAN :
          ImportKeys(h, loads, saveOk)
    \/ \E loads \in LoadChoices : LoadKeys(loads)
    \/ ExportKeys
    \/ ClearKeys
    \/ \E field \in {"did", "publicKey"} : TamperStorage(field)

\* ---------------------------------------------------------- process tracker
\* Entropy is kept in 1/10000, temporal coherence in 1/1000; times are ms.
NullTime == -1
Infinity == 2147483647

Min(a, b) == IF a <= b THEN a ELSE b

\* this.thresholds: 30 s, 0.3, 0.2, 20 events per second, 50 ms
thresholds ==
    [minDuration |-> 30 * 1000, minEntropy |-> 3000, minTemporalCoherence |-> 200,
     maxInputRate |-> 20, minEventInterval |-> 50]

\* the tracker object
Tracker ==
    [sessionStart |-> sessionStart, inputEvents |-> inputEvents,
     editTimestamps |-> editTimestamps, isTracking |-> isTracking]

SetTracker(tr) ==
    /\ sessionStart' = tr.sessionStart
    /\ inputEvents' = tr.inputEvents
    /\ editTimestamps' = tr.editTimestamps
    /\ isTracking' = tr.isTracking

\* startSession() at time t
startSession(tr, t) ==
    IF tr.isTracking THEN tr
    ELSE [sessionStart |-> t, inputEvents |-> <<>>, editTimestamps |-> <<>>,
          isTracking |-> TRUE]

\* array.slice(-k)
SliceLast(a, k) == IF Len(a) <= k THEN a ELSE SubSeq(a, Len(a) - k + 1, Len(a))

\* recordInput with no test of the length at all
recordInputUncapped(tr, eventType, t) ==
    LET started == IF ~tr.isTracking THEN startSession(tr, t) ELSE tr
    IN  [started EXCEPT
            !.inputEvents = Append(started.inputEvents, [type |-> eventType, timestamp |-> t]),
            !.editTimestamps = Append(started.editTimestamps, t)]

\* recordInput cutting to the oldest 5,000 entries
recordInputKeepsOldest(tr, eventType, t) ==
    LET started == IF ~tr.isTracking THEN startSession(tr, t) ELSE tr
        events == Append(started.inputEvents, [type |-> eventType, timestamp |-> t])
        stamps == Append(started.editTimestamps, t)
    IN  IF Len(events) > 10000
        THEN [started EXCEPT !.inputEvents = SubSeq(events, 1, 5000),
                             !.editTimestamps = SubSeq(stamps, 1, 5000)]
        ELSE [started EXCEPT !.inputEvents = events, !.editTimestamps = stamps]

\* recordInput(eventType) at time t
recordInput(tr, eventType, t) ==
    LET started == IF ~tr.isTracking THEN startSession(tr, t) ELSE tr
        events == Append(started.inputEvents, [type |-> eventType, timestamp |-> t])
        stamps == Append(started.editTimestamps, t)
    IN  IF Len(events) > 10000
        THEN [started EXCEPT !.inputEvents = SliceLast(events, 5000),
                             !.editTimestamps = SliceLast(stamps, 5000)]
        ELSE [started EXCEPT !.inputEvents = events, !.editTimestamps = stamps]

\* the loop every statistic starts with: the differences of consecutive
\* timestamps that are greater than 0, in order
PositiveIntervals(ts) ==
    SelectSeq([i \in 1..(Len(ts) - 1) |-> ts[i + 1] - ts[i]], LAMBDA x : x > 0)

SeqMin(iv) == CHOOSE x \in {iv[i] : i \in 1..Len(iv)} : \A j \in 1..Len(iv) : x <= iv[j]
SeqMax(iv) == CHOOSE x \in {iv[i] : i \in 1..Len(iv)} : \A j \in 1..Len(iv) : x >= iv[j]

\* Math.log2(k) in 1/10000, for k = 1..10
Log2Table == <<0, 10000, 15850, 20000, 23219, 25850, 28074, 30000, 31699, 33219>>

\* Shannon entropy of the 100 ms buckets of the intervals, divided by 6 and
\* capped at 1.  With n intervals and c(b) of them in bucket b,
\* n * H = n * log2(n) - sum over the intervals of log2(c(bucket of it)).
entropyOf(iv) ==
    LET n == Len(iv)
        bucketCount(i) == Cardinality({j \in 1..n : iv[j] \div 100 = iv[i] \div 100})
        nH == n * Log2Table[n] - SeqSum([i \in 1..n |-> Log2Table[bucketCount(i)]])
    IN  Min(nH \div (6 * n), 10000)

calculateEntropy(ts) ==
    IF Len(ts) < 2 THEN 0
    ELSE IF PositiveIntervals(ts) = <<>> THEN 0
    ELSE entropyOf(PositiveIntervals(ts))

Isqrt(x) == CHOOSE r \in 0..x : r * r <= x /\ x < (r + 1) * (r + 1)

\* n * n * variance of the intervals: n * (sum of squares) - (sum) squared
ScaledVariance(iv) ==
    Len(iv) * SeqSum([i \in 1..Len(iv) |-> iv[i] * iv[i]]) - SeqSum(iv) * SeqSum(iv)

\* cv = stdDev / mean, so cv * cv = ScaledVariance / (sum squared): cv < 0.3
\* and cv > 1.0 are decided exactly, the value in between from cv to its
\* first decimal
coherenceOf(iv) ==
    LET v == ScaledVariance(iv)
        s2 == SeqSum(iv) * SeqSum(iv)
    IN  IF 100 * v < 9 * s2 THEN 300
        ELSE IF v > s2 THEN 200
        ELSE 300 + ((Isqrt((100 * v) \div s2) * 100 - 300) * 4) \div 7

calculateTemporalCoherence(ts) ==
    IF Len(ts) < 2 THEN 0
    ELSE IF PositiveIntervals(ts) = <<>> THEN 0
    ELSE coherenceOf(PositiveIntervals(ts))

\* a check of duration, input rate and smallest interval alone
meetsThresholdsTimingOnly(metrics, ts) ==
    LET iv == PositiveIntervals(ts)
        rateOk == IF metrics.duration > 0
                  THEN metrics.inputEvents * 1000 <= thresholds.maxInputRate * metrics.duration
                  ELSE TRUE
        minInterval == IF Len(ts) >= 2 /\ iv # <<>> THEN SeqMin(iv) ELSE Infinity
    IN  /\ metrics.duration >= thresholds.minDuration
        /\ rateOk
        /\ minInterval >= thresholds.minEventInterval

\* meetsThresholds(metrics), which reads this.editTimestamps for the
\* smallest interval; inputRate <= 20 is events * 1000 <= 20 * duration
meetsThresholds(metrics, ts) ==
    LET iv == PositiveIntervals(ts)
        rateOk == IF metrics.duration > 0
                  THEN metrics.inputEvents * 1000 <= thresholds.maxInputRate * metrics.duration
                  ELSE TRUE
        minInterval == IF Len(ts) >= 2 /\ iv # <<>> THEN SeqMin(iv) ELSE Infinity
    IN  /\ metrics.duration >= thresholds.minDuration
        /\ metrics.entropy >= thresholds.minEntropy
        /\ metrics.temporalCoherence >= thresholds.minTemporalCoherence
        /\ rateOk
        /\ minInterval >= thresholds.minEventInterval

NoMetrics ==
    [isNull |-> TRUE, duration |-> 0, entropy |-> 0, temporalCoherence |-> 0,
     inputEvents |-> 0, timingVariance |-> <<0, 1>>, averageInterval |-> <<0, 1>>,
     minInterval |-> 0, maxInterval |-> 0, meetsThresholds |-> FALSE]

\* generateMetrics() at time t.  timingVariance is kept as <<v, n>> for
\* sqrt(v) / n and averageInterval as <<s, n>> for s / n.
generateMetrics(tr, t) ==
    IF ~tr.isTracking \/ tr.sessionStart = NullTime THEN NoMetrics
    ELSE LET ts == tr.editTimestamps
             iv == PositiveIntervals(ts)
             some == Len(ts) >= 2 /\ iv # <<>>
             m == [isNull |-> FALSE,
                   duration |-> t - tr.sessionStart,
                   entropy |-> calculateEntropy(ts),
                   temporalCoherence |-> calculateTemporalCoherence(ts),
                   inputEvents |-> Len(tr.inputEvents),
                   timingVariance |-> IF some THEN <<ScaledVariance(iv), Len(iv)>> ELSE <<0, 1>>,
                   averageInterval |-> IF some THEN <<SeqSum(iv), Len(iv)>> ELSE <<0, 1>>,
                   minInterval |-> IF some THEN SeqMin(iv) ELSE 0,
                   maxInterval |-> IF some THEN SeqMax(iv) ELSE 0,
                   meetsThresholds |-> FALSE]
         IN  [m EXCEPT !.meetsThresholds = meetsThresholds(m, ts)]

\* Math.round(s / n)
RoundRatio(q) == (2 * q[1] + q[2]) \div (2 * q[2])

\* Math.round(Math.sqrt(v) / n), which is at most bound
RoundSqrtRatio(q, bound) ==
    CHOOSE r \in 0..bound :
        /\ r = 0 \/ (2 * r - 1) * (2 * r - 1) * q[2] * q[2] <= 4 * q[1]
        /\ 4 * q[1] < (2 * r + 1) * (2 * r + 1) * q[2] * q[2]

\* SHA-256 of the JSON of an object, as a collision-free function of it
sha256OfJson(obj) == [sha256 |-> obj]

\* generateDigest() at time t: null (isNull) without metrics
generateDigest(tr, t) ==
    LET metrics == generateMetrics(tr, t)
        digestData ==
            [duration |-> metrics.duration,
             entropy |-> (metrics.entropy + 5) \div 10,
             temporalCoherence |-> metrics.temporalCoherence,
             inputEvents |-> metrics.inputEvents,
             timingVariance |-> RoundSqrtRatio(metrics.timingVariance, metrics.maxInterval),
             averageInterval |-> RoundRatio(metrics.averageInterval),
             minInterval |-> metrics.minInterval,
             maxInterval |-> metrics.maxInterval]
    IN  [isNull |-> metrics.isNull, digest |-> sha256OfJson(digestData),
         metrics |-> metrics, meetsThresholds |-> metrics.meetsThresholds]

TrackerInit ==
    /\ now = 0
    /\ sessionStart = NullTime
    /\ inputEvents = <<>>
    /\ editTimestamps = <<>>
    /\ isTracking = FALSE

\* the gaps between two input events: none at all (two events within one
\* millisecond), one below the 50 ms limit and one in each of four 100 ms
\* buckets
Deltas == {0, 10, 50, 150, 250, 350}

\* Every statistic of the tracker is a function of the bag of gaps, so the
\* gaps of a session are offered in nondecreasing order, the delay of the
\* first event after the page has loaded (time 0) counting as a gap.
LastGap ==
    IF editTimestamps = <<>> THEN 0
    ELSE IF Len(editTimestamps) = 1 THEN editTimestamps[1]
    ELSE editTimestamps[Len(editTimestamps)] - editTimestamps[Len(editTimestamps) - 1]

NextGaps == {d \in Deltas : d >= LastGap}

\* processTracker.startSession(), called when the page has loaded and when
\* the textarea gets the focus
StartSession ==
    /\ createPc = "idle"
    /\ ~isTracking
    /\ SetTracker(startSession(Tracker, now))
    /\ UNCHANGED now
    /\ UNCHANGED <<canonVars, verifyVars, keyVars, createVars, netVars, nodeVars, runVars, tabVars>>

\* the input handler of the textarea, d ms after the last step: the content
\* has one more character (the longest content is replaced instead) and
\* processTracker.recordInput(eventType) runs.  The keydown handler makes
\* the same call with another label, which nothing reads.
RecordInput(eventType, d) ==
    /\ createPc = "idle"
    /\ Len(inputEvents) < MaxEvents
    /\ now' = now + d
    /\ SetTracker(recordInput(Tracker, eventType, now'))
    /\ text' = IF Len(text) < MaxTextLen THEN Append(text, "a") ELSE text
    /\ UNCHANGED <<canonPc, canonical, hash, canonical2, hash2, jsonString, jsonOut>>
    /\ UNCHANGED <<verifyVars, keyVars, createVars, netVars, nodeVars, runVars, tabVars>>

\* A session that has been going on for a while: n events, one every
\* 100 ms, the last of them at LongNow.
LongNow == 1000000

LongSessionLengths == {4999, 9999}

LongSessionStamps(n) == [i \in 1..n |-> LongNow - (n - i) * 100]

LongSessionInit ==
    \E n \in LongSessionLengths :
        /\ now = LongNow
        /\ sessionStart = LongNow - n * 100
        /\ editTimestamps = LongSessionStamps(n)
        /\ inputEvents = [i \in 1..n |-> [type |-> "typing", timestamp |-> LongSessionStamps(n)[i]]]
        /\ isTracking = TRUE

\* the events recorded after LongNow are fewer than k
FewerLateEventsThan(k) ==
    \/ Len(editTimestamps) < k
    \/ editTimestamps[Len(editTimestamps) - k + 1] <= LongNow

\* the input handler in a long session, d ms after the last step
RecordInputLongSession(eventType, d) ==
    /\ now >= LongNow
    /\ FewerLateEventsThan(MaxEvents)
    /\ now' = now + d
    /\ SetTracker(recordInput(Tracker, eventType, now'))
    /\ UNCHANGED <<canonVars, verifyVars, keyVars, createVars, netVars, nodeVars, runVars, tabVars>>

CapNext == \E d \in {50, 150} : RecordInputLongSession("typing", d)

\* ------------------------------------------------------------ proof creator
\* String.prototype.trim on a text
TextWhitespace == {SP, TAB, CR, LF}
RECURSIVE TrimTextStart(_)
TrimTextStart(t) == IF t # <<>> /\ Head(t) \in TextWhitespace THEN TrimTextStart(Tail(t)) ELSE t
RECURSIVE TrimTextEnd(_)
TrimTextEnd(t) ==
    IF t # <<>> /\ Last(t) \in TextWhitespace THEN TrimTextEnd(SubSeq(t, 1, Len(t) - 1)) ELSE t
TrimText(t) == TrimTextEnd(TrimTextStart(t))

\* the assistance profile, with the heuristics asked before the declaration
resolveAssistanceProfileMetricsFirst(userSelected, processMetrics) ==
    IF ~processMetrics.isNull
    THEN IF processMetrics.meetsThresholds THEN "human-only"
         ELSE IF /\ processMetrics.entropy < 1000
                 /\ processMetrics.duration < 5000
                 /\ processMetrics.inputEvents < 5
         THEN "AI-generated"
         ELSE "AI-assisted"
    ELSE IF Truthy(userSelected) THEN userSelected ELSE "human-only"

\* a resolver for which any one low metric makes a proof AI-generated
resolveAssistanceProfileAnyLow(userSelected, processMetrics) ==
    IF userSelected = "AI-assisted" \/ userSelected = "AI-generated"
    THEN userSelected
    ELSE IF ~processMetrics.isNull
    THEN IF processMetrics.meetsThresholds THEN "human-only"
         ELSE IF \/ processMetrics.entropy < 1000
                 \/ processMetrics.duration < 5000
                 \/ processMetrics.inputEvents < 5
         THEN "AI-generated"
         ELSE "AI-assisted"
    ELSE IF Truthy(userSelected) THEN userSelected ELSE "human-only"

\* the assistance profile of createProof (entropy < 0.1 is < 1000 here)
resolveAssistanceProfile(userSelected, processMetrics) ==
    IF userSelected = "AI-assisted" \/ userSelected = "AI-generated"
    THEN userSelected
    ELSE IF ~processMetrics.isNull
    THEN IF processMetrics.meetsThresholds THEN "human-only"
         ELSE IF /\ processMetrics.entropy < 1000
                 /\ processMetrics.duration < 5000
                 /\ processMetrics.inputEvents < 5
         THEN "AI-generated"
         ELSE "AI-assisted"
    ELSE IF Truthy(userSelected) THEN userSelected ELSE "human-only"

NoProcessMetrics ==
    [isNull |-> TRUE, duration |-> 0, entropy |-> 0, temporalCoherence |-> 0,
     inputEvents |-> 0, meetsThresholds |-> FALSE]

NoAttestation ==
    [hash |-> NoHash, signature |-> [msg |-> <<>>, by |-> <<>>], did |-> NoDid, timestamp |-> 0,
     environmentAttestation |-> <<>>, assistanceProfile |-> "",
     hasProcessDigest |-> FALSE, processDigest |-> sha256OfJson(""),
     compoundHash |-> sha256OfJson(""), processMetrics |-> NoProcessMetrics]

\* the keys of the claim in insertion order: hash, did and timestamp, then
\* processDigest and compoundHash when a digest was made (with a digest
\* there is always a compound hash)
claimKeys(hasDigest) ==
    <<"hash", "did", "timestamp">>
    \o (IF hasDigest THEN <<"processDigest", "compoundHash">> ELSE <<>>)

\* the key names of a claim in the order Array.prototype.sort puts them
KeyOrder == <<"compoundHash", "did", "hash", "processDigest", "timestamp">>

sortKeysIdentity(keys) == keys

\* Object.keys(claim).sort()
sortKeys(keys) == SelectSeq(KeyOrder, LAMBDA k : \E i \in 1..Len(keys) : keys[i] = k)

\* JSON.stringify(claim, keys): the members named by keys, in that order
stringifyClaim(claim, keys) == [i \in 1..Len(keys) |-> [key |-> keys[i], value |-> claim[keys[i]]]]

\* the attestation createProof builds at time t for the did it read
\* (claimDid) from the trimmed content,
\* the tracker (already started) and the selected profile
buildAttestationFor(claimDid, content, tr, userSelected, t) ==
    LET contentHash == hashText(content)
        digestResult == generateDigest(tr, t)
        hasDigest == ~digestResult.isNull
        processMetrics ==
            IF hasDigest
            THEN [isNull |-> FALSE,
                  duration |-> digestResult.metrics.duration,
                  entropy |-> digestResult.metrics.entropy,
                  temporalCoherence |-> digestResult.metrics.temporalCoherence,
                  inputEvents |-> digestResult.metrics.inputEvents,
                  meetsThresholds |-> digestResult.meetsThresholds]
            ELSE NoProcessMetrics
        compoundHash == sha256OfJson(<<contentHash, digestResult.digest>>)
        environmentAttestation ==
            <<"browser", "timezone",
              IF ~processMetrics.isNull /\ processMetrics.meetsThresholds
              THEN "human-only" ELSE "web-interface">>
        claim == IF hasDigest
                 THEN [hash |-> contentHash, did |-> claimDid, timestamp |-> t,
                       processDigest |-> digestResult.digest, compoundHash |-> compoundHash]
                 ELSE [hash |-> contentHash, did |-> claimDid, timestamp |-> t]
        \* canonicalClaim = JSON.stringify(claim, Object.keys(claim).sort())
    IN  [hash |-> contentHash,
         signature |-> sign(stringifyClaim(claim, sortKeys(claimKeys(hasDigest)))),
         did |-> claimDid,
         timestamp |-> t,
         environmentAttestation |-> environmentAttestation,
         assistanceProfile |-> resolveAssistanceProfile(userSelected, processMetrics),
         hasProcessDigest |-> hasDigest,
         processDigest |-> IF hasDigest THEN digestResult.digest ELSE sha256OfJson(""),
         compoundHash |-> IF hasDigest THEN compoundHash ELSE sha256OfJson(""),
         processMetrics |-> processMetrics]

\* createProof with no other handler running between its steps: the did it
\* reads is the one of the key it signs with
buildAttestation(content, tr, userSelected, t) ==
    buildAttestationFor(did, content, tr, userSelected, t)

CreateInit ==
    /\ createPc = "idle"
    /\ userSelectedProfile = "null"
    /\ attestation = NoAttestation
    /\ createError = ""
    /\ submitCalls = 0

\* what createProof reads from the assistance-profile select ("null": the
\* element is missing)
ProfileChoices == {"null", "human-only", "AI-assisted", "AI-generated"}

\* createProof(), wait ms after the last step and with a registry node
\* selected, up to the attestation it hands to
\* registryClient.submitAttestation
CreateProof(profile, wait) ==
    /\ createPc = "idle"
    /\ now' = now + wait
    /\ IF did = NoDid
       THEN /\ createPc' = "failed"
            /\ createError' = "Please generate or import keys first"
            /\ UNCHANGED <<userSelectedProfile, attestation, submitCalls>>
            /\ UNCHANGED <<sessionStart, inputEvents, editTimestamps, isTracking>>
       ELSE IF TrimText(text) = <<>>
       THEN /\ createPc' = "failed"
            /\ createError' = "Please enter content"
            /\ UNCHANGED <<userSelectedProfile, attestation, submitCalls>>
            /\ UNCHANGED <<sessionStart, inputEvents, editTimestamps, isTracking>>
       ELSE \E tr \in {startSession(Tracker, now')} :
            /\ SetTracker(tr)
            /\ IF ~keyPair.present
               THEN /\ createPc' = "failed"
                    /\ createError' = "No keys loaded. Please generate or import keys first."
                    /\ UNCHANGED <<userSelectedProfile, attestation, submitCalls>>
               ELSE /\ userSelectedProfile' = profile
                    /\ attestation' = buildAttestation(TrimText(text), tr, profile, now')
                    /\ createPc' = "created"
                    /\ createError' = ""
                    /\ submitCalls' = submitCalls + 1
    /\ UNCHANGED <<canonVars, verifyVars, keyVars, netVars, nodeVars, runVars, tabVars>>

CreateNext ==
    \/ StartSession
    \/ \E d \in NextGaps : RecordInput("typing", d)
    \* a user who makes a key makes it before typing
    \/ createPc = "idle" /\ inputEvents = <<>> /\ GenerateKeys(1, TRUE, TRUE)
    \* and one who clears it clears it before typing
    \/ createPc = "idle" /\ inputEvents = <<>> /\ keyPair.present /\ ClearKeys
    \/ \E profile \in ProfileChoices, wait \in {0, thresholds.minDuration} :
          CreateProof(profile, wait)


\* createProof has returned (finally { setLoading(false) }) and the form,
\* which nothing clears, is ready for the next proof; the tracker is not
\* touched
NextProof ==
    /\ createPc \in {"created", "failed"}
    /\ createPc' = "idle"
    /\ UNCHANGED <<userSelectedProfile, attestation, createError, submitCalls>>
    /\ UNCHANGED <<canonVars, verifyVars, keyVars, trackerVars, netVars, nodeVars, runVars, tabVars>>

\* several proofs made on one page: a key is generated, the user types,
\* creates a proof, types on and creates the next
SessionsNext ==
    \/ createPc = "idle" /\ inputEvents = <<>> /\ ~keyPair.present /\ GenerateKeys(1, TRUE, TRUE)
    \/ \E d \in {50, 150} : RecordInput("typing", d)
    \/ \E wait \in {0, 150} :
          /\ submitCalls < MaxProofs
          /\ keyPair.present
          /\ inputEvents # <<>>
          /\ CreateProof("null", wait)
    \/ NextProof

\* createProof up to const did = keyManager.getDID(): the checks are
\* passed, the content is hashed and the did is read; the awaits that
\* follow let other handlers run
CreateProofReadsDid ==
    /\ createPc = "idle"
    /\ did # NoDid
    /\ TrimText(text) # <<>>
    /\ createPc' = "signing"
    /\ attestation' = [NoAttestation EXCEPT !.did = did]
    /\ createError' = ""
    /\ UNCHANGED <<userSelectedProfile, submitCalls>>
    /\ UNCHANGED <<canonVars, verifyVars, keyVars, trackerVars, netVars, nodeVars, runVars, tabVars>>

\* createProof from the digest to submitAttestation: the claim is made
\* with the did read before and signed by keyManager.sign with the key
\* the manager holds now
CreateProofSigns(profile) ==
    /\ createPc = "signing"
    /\ \E tr \in {startSession(Tracker, now)} :
          /\ SetTracker(tr)
          /\ attestation' = buildAttestationFor(attestation.did, TrimText(text), tr, profile, now)
    /\ userSelectedProfile' = profile
    /\ createPc' = "created"
    /\ submitCalls' = submitCalls + 1
    /\ UNCHANGED <<now, createError>>
    /\ UNCHANGED <<canonVars, verifyVars, keyVars, netVars, nodeVars, runVars, tabVars>>

\* the secrets a user imports while a proof is being made
RaceImports == {Rep("3", 2 * KeyLen)}

\* createProof running while the Generate and Import buttons, which
\* setLoading leaves enabled, are used
RaceNext ==
    \/ \E d \in {150, 250} : RecordInput("typing", d)
    \/ \E seed \in 1..MaxSeeds : GenerateKeys(seed, TRUE, TRUE)
    \/ \E h \in RaceImports : ImportKeys(h, TRUE, TRUE)
    \/ CreateProofReadsDid
    \/ CreateProofSigns("null")

\* ---------------------------------------------------- concurrent verifications
\* a registry URL is a sequence of tokens, the last of which may be "/"
GdnUrl == <<"https://gdn.sh">>
RailwayUrl == <<"https://pohw-registry-node-production.up.railway.app">>
CustomUrls == {<<"https://custom.example", "/">>}

\* url.replace(/\/$/, '') of the VerificationClient constructor and of
\* setRegistryUrl
stripTrailingSlash(url) ==
    IF url # <<>> /\ Last(url) = "/" THEN SubSeq(url, 1, Len(url) - 1) ELSE url

\* the hashes the three tabs give in the runs
RunHashes == {"0xaa", "0xbb"}

\* what verifyProof answers: valid or not, with or without a signer
RunResults == {[valid |-> TRUE, signer |-> TRUE],
               [valid |-> FALSE, signer |-> TRUE],
               [valid |-> FALSE, signer |-> FALSE]}

NoUrl == <<>>

NewRun(h) ==
    [pc |-> "hashing", hash |-> h, registry |-> NoUrl, next |-> "verifyProof",
     valid |-> FALSE, signer |-> FALSE, batch |-> FALSE,
     resultFrom |-> NoUrl, claimFrom |-> NoUrl]

NoPage == [hidden |-> TRUE, run |-> 0, hash |-> "", resultFrom |-> NoUrl, claimFrom |-> NoUrl]

\* the registry call performVerification makes after method m has returned
nextCall(m, run) ==
    CASE m = "verifyProof" -> "getProof"
      [] m = "getProof" -> IF run.batch THEN "getBatchAnchors" ELSE "getPAVClaim"
      [] m = "getBatchAnchors" -> "getPAVClaim"
      [] m = "getPAVClaim" ->
            IF run.signer THEN "getReputation"
            ELSE IF run.valid THEN "getAllProofs" ELSE "displayResults"
      [] m = "getReputation" -> IF run.valid THEN "getAllProofs" ELSE "displayResults"
      [] OTHER -> "displayResults"

\* setupRegistrySelector has filled the selector with the default nodes,
\* selected the first and made a client for it
RunsInit ==
    /\ registryOptions = {GdnUrl, RailwayUrl}
    /\ registrySelect = GdnUrl
    /\ clientUrl = stripTrailingSlash(GdnUrl)
    /\ verifyDisabled = FALSE
    /\ runs = <<>>
    /\ page = NoPage

OtherUnchanged ==
    UNCHANGED <<canonVars, verifyVars, keyVars, trackerVars, createVars, netVars, nodeVars, tabVars>>

\* performVerification is called, by the button unless it is disabled or
\* by Enter / Ctrl+Enter in an input, and runs up to the await of the hash
PerformVerificationStarts(h, byButton) ==
    /\ Len(runs) < MaxRuns
    /\ byButton => ~verifyDisabled
    /\ runs' = Append(runs, NewRun(h))
    /\ verifyDisabled' = TRUE
    /\ page' = [page EXCEPT !.hidden = TRUE]
    /\ UNCHANGED <<registryOptions, registrySelect, clientUrl>>
    /\ OtherUnchanged

\* the hash is there: the run reads registrySelect.value, replaces the
\* module-level client, and goes on to its first registry call
RunSelectsRegistry(r) ==
    /\ runs[r].pc = "hashing"
    /\ clientUrl' = stripTrailingSlash(registrySelect)
    /\ runs' = [runs EXCEPT ![r].pc = "calling", ![r].registry = registrySelect]
    /\ UNCHANGED <<registryOptions, registrySelect, verifyDisabled, page>>
    /\ OtherUnchanged

\* the run calls the next method on whatever verificationClient is now,
\* and the registry at that client's URL answers
RunCalls(r, answer, hasBatch) ==
    /\ runs[r].pc = "calling"
    /\ runs[r].next # "displayResults"
    /\ \E m \in {runs[r].next} :
       \E after \in {[runs[r] EXCEPT
                        !.valid = IF m = "verifyProof" THEN answer.valid ELSE @,
                        !.signer = IF m = "verifyProof" THEN answer.signer ELSE @,
                        !.resultFrom = IF m = "verifyProof" THEN clientUrl ELSE @,
                        !.batch = IF m = "getProof" THEN hasBatch ELSE @,
                        !.claimFrom = IF m = "getPAVClaim" THEN clientUrl ELSE @]} :
          runs' = [runs EXCEPT ![r] = [after EXCEPT !.next = nextCall(m, after)]]
    /\ UNCHANGED <<registryOptions, registrySelect, clientUrl, verifyDisabled, page>>
    /\ OtherUnchanged

\* displayResults and the finally block of the run
RunDisplays(r) ==
    /\ runs[r].pc = "calling"
    /\ runs[r].next = "displayResults"
    /\ page' = [hidden |-> FALSE, run |-> r, hash |-> runs[r].hash,
                resultFrom |-> runs[r].resultFrom, claimFrom |-> runs[r].claimFrom]
    /\ verifyDisabled' = FALSE
    /\ runs' = [runs EXCEPT ![r].pc = "done"]
    /\ UNCHANGED <<registryOptions, registrySelect, clientUrl>>
    /\ OtherUnchanged

\* the change handler of the registry selector
ChangeRegistry(url) ==
    /\ url \in registryOptions
    /\ url # registrySelect
    /\ registrySelect' = url
    /\ clientUrl' = stripTrailingSlash(url)
    /\ UNCHANGED <<registryOptions, verifyDisabled, runs, page>>
    /\ OtherUnchanged

\* the click handler of the add-custom button
AddCustomRegistry(url) ==
    /\ url \notin registryOptions
    /\ registryOptions' = registryOptions \cup {url}
    /\ registrySelect' = url
    /\ clientUrl' = stripTrailingSlash(url)
    /\ UNCHANGED <<verifyDisabled, runs, page>>
    /\ OtherUnchanged

\* one verification while the registry selector is used
SelectorNext ==
    \/ \E h \in RunHashes, byButton \in BOOLEAN :
          runs = <<>> /\ PerformVerificationStarts(h, byButton)
    \/ \E r \in 1..Len(runs) : RunSelectsRegistry(r)
    \/ \E r \in 1..Len(runs), answer \in RunResults, hasBatch \in BOOLEAN :
          RunCalls(r, answer, hasBatch)
    \/ \E r \in 1..Len(runs) : RunDisplays(r)
    \/ \E url \in {GdnUrl, RailwayUrl} \cup CustomUrls : ChangeRegistry(url)
    \/ \E url \in CustomUrls : AddCustomRegistry(url)

\* several verifications with the registry selector left alone
RunsNext ==
    \/ \E h \in RunHashes, byButton \in BOOLEAN : PerformVerificationStarts(h, byButton)
    \/ \E r \in 1..Len(runs) : RunSelectsRegistry(r)
    \/ \E r \in 1..Len(runs), answer \in RunResults, hasBatch \in BOOLEAN :
          RunCalls(r, answer, hasBatch)
    \/ \E r \in 1..Len(runs) : RunDisplays(r)

\* ------------------------------------------- one text, hashed in three places
\* hashBinary: SHA-256 of the file's bytes as they are
hashBinary(data) == hashSHA256(data)

\* hashFile for a file with the given content: canonicalized when the
\* type or the name says text, hashed as bytes otherwise
hashFile(content, saysText) ==
    IF saysText THEN hashSHA256(canonicalizeText(content)) ELSE hashBinary(content)

\* an input is trimmed, an empty one is refused, the rest goes to hashText
hashOfTextarea(value) ==
    IF TrimText(value) = <<>>
    THEN [called |-> TRUE, refused |-> TRUE, hash |-> NoHash]
    ELSE [called |-> TRUE, refused |-> FALSE, hash |-> hashText(TrimText(value))]

NotHashed == [called |-> FALSE, refused |-> FALSE, hash |-> NoHash]

TabsInit ==
    /\ tabText = <<>>
    /\ creatorHash = NotHashed
    /\ contentTabHash = NotHashed
    /\ fileTabHash = [called |-> FALSE, refused |-> FALSE, hash |-> NoHash, saysText |-> FALSE]

TabsOtherUnchanged ==
    UNCHANGED <<canonVars, verifyVars, keyVars, trackerVars, createVars, netVars, nodeVars, runVars>>

\* the text is written, before it is hashed anywhere
WriteText(c) ==
    /\ ~creatorHash.called /\ ~contentTabHash.called /\ ~fileTabHash.called
    /\ Len(tabText) < MaxTextLen
    /\ tabText' = Append(tabText, c)
    /\ UNCHANGED <<creatorHash, contentTabHash, fileTabHash>>
    /\ TabsOtherUnchanged

\* createProof with the text in its textarea, up to the hash
CreatorHashes ==
    /\ ~creatorHash.called
    /\ creatorHash' = hashOfTextarea(tabText)
    /\ UNCHANGED <<tabText, contentTabHash, fileTabHash>>
    /\ TabsOtherUnchanged

\* performVerification on the content tab with the text pasted in
ContentTabHashes ==
    /\ ~contentTabHash.called
    /\ contentTabHash' = hashOfTextarea(tabText)
    /\ UNCHANGED <<tabText, creatorHash, fileTabHash>>
    /\ TabsOtherUnchanged

\* performVerification on the file tab with a file that holds the text
FileTabHashes(saysText) ==
    /\ ~fileTabHash.called
    /\ fileTabHash' = [called |-> TRUE, refused |-> FALSE,
                       hash |-> hashFile(tabText, saysText), saysText |-> saysText]
    /\ UNCHANGED <<tabText, creatorHash, contentTabHash>>
    /\ TabsOtherUnchanged

TabsNext ==
    \/ \E c \in Chars : WriteText(c)
    \/ CreatorHashes
    \/ ContentTabHashes
    \/ \E saysText \in BOOLEAN : FileTabHashes(saysText)

\* ----------------------------------------------------------- registry calls
\* fetch without a signal option never gives up by itself
NoTimeout == 0
\* one tick of the model's clock, in ms
TickMs == 5000

\* the calls that fetch from a registry node or a discovery source; the
\* repository holds two RegistryClient classes, the second with timeouts
RegistryCalls ==
    {[client |-> "VerificationClient", method |-> m] :
        m \in {"verifyProof", "getProof", "getAllProofs", "getPAVClaim", "checkNodeStatus"}}
    \cup {[client |-> "RegistryClient", method |-> m] :
        m \in {"submitAttestation", "checkNodeStatus"}}
    \cup {[client |-> "RegistryClient (second)", method |-> m] :
        m \in {"checkNodeStatus", "submitAttestation", "verifyProof"}}
    \cup {[client |-> "RegistryDiscovery", method |-> "discoverNodes"]}

\* the calls that take a content hash
TakesHash(c) == c.method \in {"verifyProof", "getProof", "getAllProofs", "getPAVClaim"}

\* the calls performVerification and createProof await between
\* setLoading(true) and the finally block
UnderLoading(c) ==
    \/ c.client = "VerificationClient" /\ TakesHash(c)
    \/ c.method = "submitAttestation"

\* signal: AbortSignal.timeout(ms) of the fetch options, where there is one
fetchTimeout(c) ==
    IF c.client = "RegistryClient (second)"
    THEN CASE c.method = "checkNodeStatus" -> 5000
           [] c.method = "submitAttestation" -> 30000
           [] OTHER -> 10000
    ELSE NoTimeout

\* hash.startsWith('0x') ? hash.substring(2) : hash
normalizedHash(h) ==
    IF Len(h) >= 2 /\ h[1] = "0" /\ h[2] = "x" THEN SubSeq(h, 3, Len(h)) ELSE h

\* encodeURIComponent: letters and digits stay, anything else is escaped
Unreserved == {"0", "1", "a", "x"}
encodeURIComponent(h) ==
    Flatten([i \in 1..Len(h) |-> IF h[i] \in Unreserved THEN <<h[i]>> ELSE <<"%", h[i]>>])

\* the requests a call issues, in order, as paths below the registry URL
\* (for discoverNodes: the discovery sources)
requestsOf(c, h) ==
    CASE c.method = "discoverNodes" ->
            <<<<"proofofhumanwork.org/.well-known/registry-nodes.json">>,
              <<"gdn.sh/.well-known/registry-nodes.json">>>>
      [] c.method = "checkNodeStatus" -> <<<<"/pohw/status">>>>
      [] c.method = "submitAttestation" -> <<<<"/pohw/attest">>>>
      [] c.method = "verifyProof" /\ c.client = "RegistryClient (second)" ->
            <<<<"/pohw/verify/">> \o encodeURIComponent(h)>>
      [] c.method = "verifyProof" -> <<<<"/pohw/verify/">> \o normalizedHash(h)>>
      [] c.method = "getProof" ->
            <<<<"/pohw/verify/">> \o normalizedHash(h), <<"/pohw/proof/">> \o normalizedHash(h)>>
      [] c.method = "getAllProofs" -> <<<<"/pohw/proofs/">> \o normalizedHash(h)>>
      [] OTHER -> <<<<"/pohw/claim/">> \o normalizedHash(h)>>

\* the hashes handed to the calls: hex texts, bare and with the 0x prefix
BareHashes == {h \in SeqsUpTo({"a", "1"}, MaxHashLen) : h # <<>>}
NetHashes == BareHashes \cup {<<"0", "x">> \o h : h \in BareHashes}

\* how a request can end when the node answers
Responses == {"ok", "okWithoutProof", "http404", "httpError", "fetchFailed"}

\* whether the call goes on to its next request after this answer:
\* discoverNodes tries every source; getProof falls back to /pohw/proof
\* unless the first answer carried the proof or the fetch threw
continues(c, k, o) ==
    /\ k < Len(c.requests)
    /\ \/ c.method = "discoverNodes"
       \/ c.method = "getProof" /\ o \notin {"ok", "fetchFailed"}

NoCall == [client |-> "", method |-> "", hash |-> <<>>, requests |-> <<>>]

NetInit ==
    /\ netPc = "idle"
    /\ netCall = NoCall
    /\ netFetch = 0
    /\ netWaited = 0
    /\ netOutcome = ""
    /\ loading = FALSE

\* a call is made and its first request sent
RegistryCall(c, h) ==
    /\ netPc = "idle"
    /\ TakesHash(c) <=> h # <<>>
    /\ netCall' = [client |-> c.client, method |-> c.method, hash |-> h,
                   requests |-> requestsOf(c, h)]
    /\ netFetch' = 1
    /\ netWaited' = 0
    /\ netOutcome' = ""
    /\ netPc' = "awaiting"
    /\ loading' = UnderLoading(c)
    /\ UNCHANGED <<canonVars, verifyVars, keyVars, trackerVars, createVars, nodeVars, runVars, tabVars>>

\* the node (or the network stack) answers the awaited request
NodeResponds(o) ==
    /\ netPc = "awaiting"
    /\ IF continues(netCall, netFetch, o)
       THEN /\ netFetch' = netFetch + 1
            /\ netWaited' = 0
            /\ UNCHANGED <<netPc, netOutcome>>
       ELSE /\ netPc' = "settled"
            /\ netOutcome' = o
            /\ UNCHANGED <<netFetch, netWaited>>
    /\ UNCHANGED <<netCall, loading>>
    /\ UNCHANGED <<canonVars, verifyVars, keyVars, trackerVars, createVars, nodeVars, runVars, tabVars>>

\* the timeout of the awaited request has run out
TimeoutDue ==
    /\ fetchTimeout(netCall) # NoTimeout
    /\ netWaited * TickMs >= fetchTimeout(netCall)

\* time passes while the request is awaited (counted up to MaxWait ticks,
\* which is beyond every timeout of the code)
Tick ==
    /\ netPc = "awaiting"
    /\ netWaited < MaxWait
    /\ ~TimeoutDue
    /\ netWaited' = netWaited + 1
    /\ UNCHANGED <<netPc, netCall, netFetch, netOutcome, loading>>
    /\ UNCHANGED <<canonVars, verifyVars, keyVars, trackerVars, createVars, nodeVars, runVars, tabVars>>

\* AbortSignal.timeout aborts the fetch: the call ends with a TimeoutError
AbortTimeout ==
    /\ netPc = "awaiting"
    /\ TimeoutDue
    /\ netPc' = "settled"
    /\ netOutcome' = "TimeoutError"
    /\ UNCHANGED <<netCall, netFetch, netWaited, loading>>
    /\ UNCHANGED <<canonVars, verifyVars, keyVars, trackerVars, createVars, nodeVars, runVars, tabVars>>

\* the caller goes on after the await: finally { setLoading(false) }
Finally ==
    /\ netPc = "settled"
    /\ netPc' = "idle"
    /\ loading' = FALSE
    /\ UNCHANGED <<netCall, netFetch, netWaited, netOutcome>>
    /\ UNCHANGED <<canonVars, verifyVars, keyVars, trackerVars, createVars, nodeVars, runVars, tabVars>>

NetNext ==
    \/ \E c \in RegistryCalls, h \in NetHashes \cup {<<>>} : RegistryCall(c, h)
    \/ \E o \in Responses : NodeResponds(o)
    \/ Tick
    \/ AbortTimeout
    \/ Finally

\* ------------------------------------------------------- registry discovery
\* this.defaultNodes, by id and url
defaultNodes ==
    <<[id |-> "gdn.sh", url |-> "https://gdn.sh"],
      [id |-> "railway-prod", url |-> "https://pohw-registry-node-production.up.railway.app"]>>

localhostNode == [id |-> "localhost", url |-> "http://localhost:3000"]

\* what a discovery source can answer: nothing usable ("failed": the
\* fetch threw, the status was an error, or the body had no nodes array),
\* or a list of nodes
SourceAnswers ==
    {[failed |-> TRUE, nodes |-> <<>>]}
    \cup {[failed |-> FALSE, nodes |-> ns] :
            ns \in {<<>>,
                    <<[id |-> "node-3", url |-> "https://node-3", status |-> "active"]>>,
                    <<[id |-> "gdn.sh", url |-> "https://mirror", status |-> "active"]>>,
                    <<[id |-> "node-4", url |-> "https://node-4", status |-> "retired"]>>}}

\* allNodes.set(id, node): a known id keeps its place, a new one goes last
MapSet(m, node) ==
    IF \E i \in 1..Len(m) : m[i].id = node.id
    THEN [i \in 1..Len(m) |-> IF m[i].id = node.id THEN node ELSE m[i]]
    ELSE Append(m, node)

\* data.nodes.forEach: the active nodes are put into the map
RECURSIVE AddActive(_, _)
AddActive(m, ns) ==
    IF ns = <<>> THEN m
    ELSE AddActive(IF Head(ns).status = "active"
                   THEN MapSet(m, [id |-> Head(ns).id, url |-> Head(ns).url])
                   ELSE m,
                   Tail(ns))

\* RegistryDiscovery.discoverNodes, given what the two sources answer and
\* whether the page runs on localhost
discoverNodes(a1, a2, onLocalhost) ==
    LET fromSources == AddActive(AddActive(defaultNodes, a1.nodes), a2.nodes)
    IN  IF onLocalhost THEN MapSet(fromSources, localhostNode) ELSE fromSources

\* RegistryDiscovery.getDefaultRegistry on the list of discovered nodes
getDefaultRegistry(nodes, onLocalhost) ==
    IF onLocalhost THEN "http://localhost:3000"
    ELSE IF \E i \in 1..Len(nodes) : nodes[i].id = "gdn.sh"
         THEN nodes[CHOOSE i \in 1..Len(nodes) :
                        /\ nodes[i].id = "gdn.sh"
                        /\ \A j \in 1..(i - 1) : nodes[j].id # "gdn.sh"].url
    ELSE IF nodes # <<>> THEN nodes[1].url
    ELSE "https://gdn.sh"

\* window.location.hostname is localhost: discoverNodes has added the
\* localhost node on such a page and on no other
IsLocalhostPage == \E i \in 1..Len(discoveredNodes) : discoveredNodes[i].id = "localhost"

\* how the probe of one node can end: the node answers (with a plain
\* status body, or one that names an id and url of its own), answers with
\* an HTTP error, cannot be reached, or the probe itself throws before
\* checkNodeStatus is entered
ProbeOutcomes == {"ok", "okNamingItself", "httpError", "fetchFailed", "threw"}

\* VerificationClient.checkNodeStatus, given how the probe ended: the part
\* of its result that is merged over the node ("" for a field it leaves out)
checkNodeStatus(o) ==
    CASE o = "ok" -> [online |-> TRUE, error |-> "", id |-> "", url |-> ""]
      [] o = "okNamingItself" ->
            [online |-> TRUE, error |-> "", id |-> "self", url |-> "https://self"]
      [] o = "httpError" -> [online |-> FALSE, error |-> "HTTP 500", id |-> "", url |-> ""]
      [] OTHER -> [online |-> FALSE, error |-> "Failed to fetch", id |-> "", url |-> ""]

\* { ...node, ...status }
Spread(node, status) ==
    [id |-> IF status.id # "" THEN status.id ELSE node.id,
     url |-> IF status.url # "" THEN status.url ELSE node.url,
     online |-> status.online,
     error |-> status.error]

\* a version of checkAllNodesStatus that leaves out the nodes whose probe
\* was rejected
checkAllNodesStatusFulfilledOnly(nodes, outcomes) ==
    LET idx == SelectSeq([i \in 1..Len(nodes) |-> i], LAMBDA i : outcomes[i] # "threw")
    IN  [k \in 1..Len(idx) |-> Spread(nodes[idx[k]], checkNodeStatus(outcomes[idx[k]]))]

\* RegistryDiscovery.checkAllNodesStatus: Promise.allSettled keeps the
\* order of the probes; a rejected one becomes an offline entry
checkAllNodesStatus(nodes, outcomes) ==
    [i \in 1..Len(nodes) |->
        IF outcomes[i] # "threw"
        THEN Spread(nodes[i], checkNodeStatus(outcomes[i]))
        ELSE [id |-> nodes[i].id, url |-> nodes[i].url, online |-> FALSE,
              error |-> "Unknown error"]]

\* what checkAllNodesStatus returned, for which nodes and probe outcomes
NoStatuses == [called |-> FALSE, nodes |-> <<>>, outcomes |-> <<>>, entries |-> <<>>]

NodesInit ==
    /\ discoveredNodes = <<>>
    /\ nodeStatuses = NoStatuses

DiscoverNodes(a1, a2, onLocalhost) ==
    /\ discoveredNodes' = discoverNodes(a1, a2, onLocalhost)
    /\ UNCHANGED nodeStatuses
    /\ UNCHANGED <<canonVars, verifyVars, keyVars, trackerVars, createVars, netVars, runVars, tabVars>>

CheckAllNodesStatus(outcomes) ==
    /\ nodeStatuses' = [called |-> TRUE, nodes |-> discoveredNodes, outcomes |-> outcomes,
                        entries |-> checkAllNodesStatus(discoveredNodes, outcomes)]
    /\ UNCHANGED discoveredNodes
    /\ UNCHANGED <<canonVars, verifyVars, keyVars, trackerVars, createVars, netVars, runVars, tabVars>>

NodesNext ==
    \/ \E a1 \in SourceAnswers, a2 \in SourceAnswers, onLocalhost \in BOOLEAN :
          DiscoverNodes(a1, a2, onLocalhost)
    \/ \E outcomes \in [1..Len(discoveredNodes) -> ProbeOutcomes] :
          CheckAllNodesStatus(outcomes)

Init ==
    CanonInit /\ VerifyInit /\ KeyInit /\ TrackerInit /\ CreateInit /\ NetInit /\ NodesInit
    /\ RunsInit /\ TabsInit

Next ==
    \/ CanonNext \/ JsonNext \/ VerifyNext \/ KeyNext \/ CreateNext \/ CapNext
    \/ NetNext \/ NodesNext \/ SessionsNext \/ RaceNext \/ RunsNext
    \/ SelectorNext \/ TabsNext

Spec == Init /\ [][Next]_vars

SpecCanon == Init /\ [][CanonNext]_vars

SpecVerify == Init /\ [][VerifyNext]_vars

SpecKeys == Init /\ [][KeyNext]_vars

SpecCreate == Init /\ [][CreateNext]_vars

SpecJson == Init /\ [][JsonNext]_vars

CapInit ==
    CanonInit /\ VerifyInit /\ KeyInit /\ CreateInit /\ LongSessionInit /\ NetInit /\ NodesInit
    /\ RunsInit /\ TabsInit

SpecCap == CapInit /\ [][CapNext]_vars

\* the registry calls: the browser's clock and timers run and the caller
\* goes on after a settled await; nothing makes a node answer
SpecNet ==
    Init /\ [][NetNext]_vars
         /\ WF_vars(Tick) /\ WF_vars(AbortTimeout) /\ WF_vars(Finally)

SpecNodes == Init /\ [][NodesNext]_vars

SpecSessions == Init /\ [][SessionsNext]_vars

SpecRace == Init /\ [][RaceNext]_vars

SpecRuns == Init /\ [][RunsNext]_vars

SpecSelector == Init /\ [][SelectorNext]_vars

SpecTabs == Init /\ [][TabsNext]_vars

\* ------------------------------------------------------------------ claims

\* C1: canonicalizeText is idempotent, so hashing the canonical form of a
\* text gives the hash of the text: canonicalizeText(canonicalizeText(T)) =
\* canonicalizeText(T) and hashText(canonicalizeText(T)) = hashText(T).
C1_Idempotent ==
    canonPc = "rehashed" => (canonical2 = canonical /\ hash2 = hash)

\* C8: the output of canonicalizeText has only LF line endings, no line
\* ending in a space or tab, and exactly one trailing line terminator (the
\* character before the final LF is not an LF unless the output is one LF).
C8_OnlyLF ==
    canonPc # "editing" => \A i \in 1..Len(canonical) : canonical[i] # CR

C8_NoTrailingWs ==
    canonPc # "editing" =>
        \A i \in 1..Len(canonical) :
            canonical[i] = LF => (i = 1 \/ canonical[i - 1] \notin {SP, TAB})

C8_OneTerminator ==
    canonPc # "editing" =>
        /\ canonical # <<>>
        /\ Last(canonical) = LF
        /\ (Len(canonical) >= 2 => canonical[Len(canonical) - 1] # LF)

C8_CanonicalForm == C8_OnlyLF /\ C8_NoTrailingWs /\ C8_OneTerminator


\* ---- the verdict inputs of C2 and C7, read off the shown result and claim
ClaimHasProcessDigest == ~pavClaim.isNull /\ pavClaim.processDigest = "0xpd"
ClaimHasEntropyProof == ~pavClaim.isNull /\ pavClaim.entropyProof = "zkp:entropy>0.350"
EnvEntries ==
    IF pavClaim.isNull \/ pavClaim.environmentAttestation.kind \notin {"string", "array"}
    THEN {}
    ELSE {pavClaim.environmentAttestation.items[i] :
            i \in 1..Len(pavClaim.environmentAttestation.items)}
EnvSaysHumanOnly == "Human-Only" \in EnvEntries
EnvSaysAIAssisted == "AI-assisted" \in EnvEntries
SignerPresent == result.signer = "did:pohw:s"
SignerOrDidPresent == result.signer = "did:pohw:s" \/ result.did = "did:pohw:d"

\* C2: determineVerdict is 'indeterminate' for every result with
\* valid == false, whatever signer, did and the claim document are
\* (the claim document may be absent).
C2_InvalidIsIndeterminate ==
    (vPc = "shown" /\ result.valid = "false") => shown.verdict.type = "indeterminate"

\* C2 witness: an invalid result carrying a signer is shown next to a claim
\* document with process digest, entropy proof and a human-only environment
C2_Witness ==
    /\ vPc = "shown"
    /\ result.valid = "false"
    /\ SignerPresent
    /\ ClaimHasProcessDigest /\ ClaimHasEntropyProof /\ EnvSaysHumanOnly

\* the verdict the priority list gives when "signer present" is `signer`
PriorityVerdict(signer) ==
    IF ClaimHasProcessDigest /\ ClaimHasEntropyProof /\ EnvSaysHumanOnly
    THEN <<"human-authored", "Verified human work with process evidence and human-only attestation">>
    ELSE IF signer /\ EnvSaysAIAssisted
    THEN <<"ai-assisted", "Human-approved work with AI assistance disclosed">>
    ELSE IF signer /\ (ClaimHasProcessDigest \/ ClaimHasEntropyProof)
    THEN <<"human-approved", "Verified human signature with process evidence">>
    ELSE IF signer
    THEN <<"human-approved", "Verified human signature (limited process evidence)">>
    ELSE <<"indeterminate", "Proof is valid but lacks sufficient evidence to determine authorship type">>

ShownVerdict == <<shown.verdict.type, shown.verdict.explanation>>

\* C7 as stated: for every valid result the verdict is the first matching
\* rule of the priority list, where rules 2 to 4 ask for result.signer.
C7_PriorityList_Original ==
    (vPc = "shown" /\ result.valid = "true") => ShownVerdict = PriorityVerdict(SignerPresent)

\* C7 amended: for every valid result the verdict is the first matching rule
\* of the priority list, where rules 2 to 4 ask for result.signer or,
\* failing that, result.did.
C7_PriorityList ==
    (vPc = "shown" /\ result.valid = "true") => ShownVerdict = PriorityVerdict(SignerOrDidPresent)

\* C7 witness: a valid, signed result whose claim document has everything
\* and whose environment says both human-only and AI-assisted
C7_Witness ==
    /\ vPc = "shown"
    /\ result.valid = "true"
    /\ SignerPresent
    /\ ClaimHasProcessDigest /\ ClaimHasEntropyProof
    /\ EnvSaysHumanOnly /\ EnvSaysAIAssisted
    /\ shown.verdict.type = "human-authored"

\* ---- C4: the Merkle root a verifier recomputes
\* the digest of two digests (a stand-in for SHA-256 of the concatenation:
\* for a fixed left digest, different right digests give different results)
HashPair(a, b) == (3 * a + 5 * b + 1) % 7

\* hash the running value with each sibling in order, starting from the leaf
RECURSIVE RecomputeRoot(_, _)
RecomputeRoot(running, path) ==
    IF path = <<>> THEN running
    ELSE RecomputeRoot(HashPair(running, Head(path)), Tail(path))

MerkleMismatch ==
    /\ result.merkle_proof.present
    /\ result.merkle_root.present
    /\ RecomputeRoot(vHash, result.merkle_proof.path) # result.merkle_root.digest

\* C4: whenever the root recomputed from merkle_proof and the leaf differs
\* from merkle_root, the outcome presented is valid=false with error
\* MerkleMismatch, whatever the registry asserted.
C4_MerkleMismatchRejected ==
    (vPc = "shown" /\ MerkleMismatch) =>
        (shown.badge = "INVALID" /\ shown.status = "MerkleMismatch")


\* ---- C9, C10: importing secrets
\* a secret is 64 hexadecimal characters after an optional 0x prefix
WellFormedSecret(h) ==
    LET body == IF Len(h) >= 2 /\ h[1] = "0" /\ h[2] = "x" THEN SubSeq(h, 3, Len(h)) ELSE h
    IN  Len(body) = 64 /\ \A i \in 1..Len(body) : body[i] \in HexDigitSet

\* C9: importKeys fails with an invalid-key-length error unless the secret
\* is 64 hexadecimal characters after an optional 0x prefix, and such a
\* failure leaves keyPair, did and the stored record unchanged.
C9_ImportRejectsBadLength ==
    [][(lastOp'.op = "import" /\ edLib' = "loaded" /\ ~WellFormedSecret(lastOp'.input))
         => (lastOp'.error = "InvalidKeyLength" /\ UNCHANGED <<keyPair, did, storage>>)]_vars

\* C10: importing the secret of an export gives the identity exported: the
\* import succeeds, did and public key are the exported ones, and what
\* sign() produces from then on verifies under the exported public key.
C10_RoundTrip ==
    (lastOp.op = "import" /\ exported.present /\ lastOp.input = exported.privateKey
        /\ lastOp.error # "LibraryNotLoaded")
    => /\ lastOp.error \in {"", "SaveFailed"}
       /\ keyPair.present
       /\ did = exported.did
       /\ BytesToHex(keyPair.publicKey) = exported.publicKey
       /\ BytesToHex(sign("claim").by) = exported.publicKey

\* C10 witness: a key manager holding no key has imported the exported
\* secret of a generated identity, some of whose bytes are below 16
C10_Witness ==
    /\ lastOp.op = "import" /\ lastOp.fresh /\ lastOp.error = ""
    /\ exported.present /\ lastOp.input = exported.privateKey
    /\ keyPair.privateKey = randomPrivateKey(1)
    /\ \E i \in 1..KeyLen : keyPair.privateKey[i] < 16

\* the gaps between consecutive recorded events of the session, every one
ObservedGaps == {editTimestamps[i + 1] - editTimestamps[i] : i \in 1..(Len(editTimestamps) - 1)}

\* C3: a proof created with the declared profile AI-assisted or AI-generated
\* carries that profile, whatever the process metrics say.
C3_DeclaredProfileKept ==
    /\ (createPc = "created" /\ userSelectedProfile \in {"AI-assisted", "AI-generated"})
           => attestation.assistanceProfile = userSelectedProfile
    /\ \A declared \in {"AI-assisted", "AI-generated"} :
       \A processMetrics \in {NoProcessMetrics, attestation.processMetrics} :
          resolveAssistanceProfile(declared, processMetrics) = declared

\* a proof declared AI-assisted whose session meets the human thresholds
C3_Witness ==
    /\ createPc = "created"
    /\ userSelectedProfile = "AI-assisted"
    /\ attestation.processMetrics.meetsThresholds
    /\ attestation.assistanceProfile = "AI-assisted"

\* C5: the metrics of a created proof meet the thresholds exactly when the
\* session lasted 30 s or more, entropy is 0.3 or more, temporal coherence is
\* 0.2 or more, there were at most 20 events per second and the smallest
\* observed gap between events is 50 ms or more.
C5_ThresholdsIffFiveConditions ==
    createPc = "created" =>
        (attestation.processMetrics.meetsThresholds <=>
            /\ attestation.processMetrics.duration >= 30000
            /\ attestation.processMetrics.entropy >= 3000
            /\ attestation.processMetrics.temporalCoherence >= 200
            /\ attestation.processMetrics.inputEvents * 1000
                   <= 20 * attestation.processMetrics.duration
            /\ \A g \in ObservedGaps : g >= 50)

\* C6: a session with two consecutive events less than 50 ms apart does not
\* meet the thresholds.
C6_FastPairFailsThresholds ==
    (createPc = "created" /\ \E g \in ObservedGaps : g < 50)
        => ~attestation.processMetrics.meetsThresholds

\* C11: the did is null exactly when the key pair is null; otherwise the
\* public key held is the one derived from the private key held and the did
\* is generateDID of it, whatever the stored record says.
C11_DidDerivedFromKey ==
    /\ (did = NoDid) <=> ~keyPair.present
    /\ keyPair.present =>
          /\ keyPair.publicKey = getPublicKey(keyPair.privateKey)
          /\ did = generateDID(getPublicKey(keyPair.privateKey))

\* keys loaded from a stored record whose did and publicKey were altered
C11_Witness ==
    /\ lastOp.op = "load"
    /\ lastOp.error = ""
    /\ keyPair.present
    /\ storage.did = AlteredDid
    /\ storage.publicKey = AlteredPublicKey
    /\ did # storage.did

\* C12: without an identity nothing is signed and nothing is submitted: sign
\* raises its error while keyPair is null, and a createProof that runs while
\* keyPair is null ends with an error shown, no attestation built and no call
\* of submitAttestation.
C12_NoIdentityNoSubmission ==
    /\ [](~keyPair.present => sign("claim").msg = "No keys loaded")
    /\ [][(createPc = "idle" /\ createPc' # "idle" /\ ~keyPair.present)
            => /\ createPc' = "failed"
               /\ createError' # ""
               /\ submitCalls' = submitCalls
               /\ attestation' = attestation]_vars
    /\ [](submitCalls > 0 => attestation.signature.by = keyPair.publicKey)

\* createProof has run after clearKeys, with content typed
C12_Witness ==
    /\ createPc = "failed"
    /\ lastOp.op = "clear"
    /\ ~keyPair.present
    /\ inputEvents # <<>>
    /\ createError = "Please generate or import keys first"
    /\ submitCalls = 0

C14_UnparseableJsonFails ==
    (jsonOut.called /\ ~Parseable(jsonString))
        => (jsonOut.error = "InvalidInput" /\ jsonOut.value # jsonString)

\* the fields of an attestation that the claim is made of
SignedFields(a) ==
    <<a.hash, a.did, a.timestamp, a.hasProcessDigest,
      IF a.hasProcessDigest THEN a.processDigest ELSE sha256OfJson(""),
      IF a.hasProcessDigest THEN a.compoundHash ELSE sha256OfJson("")>>

\* those fields as members in sorted key order
SignedMembersOf(a) ==
    IF a.hasProcessDigest
    THEN <<[key |-> "compoundHash", value |-> a.compoundHash],
           [key |-> "did", value |-> a.did],
           [key |-> "hash", value |-> a.hash],
           [key |-> "processDigest", value |-> a.processDigest],
           [key |-> "timestamp", value |-> a.timestamp]>>
    ELSE <<[key |-> "did", value |-> a.did],
           [key |-> "hash", value |-> a.hash],
           [key |-> "timestamp", value |-> a.timestamp]>>

\* the bytes createProof would have signed for the content c at time t
\* with the profile p selected
SignedBy(c, tr, p, t) == buildAttestation(c, tr, p, t)

\* C15: the bytes createProof signs are the claim members hash, did and
\* timestamp, with processDigest and compoundHash when a digest was made,
\* in sorted key order; with no profile selected (the selection reaches
\* only unsigned fields) the signed fields and the signature are the same
\* as with any; and a proof of a longer content, or one made a millisecond
\* later, differs in a signed field and in the signed bytes.
C15_SignatureCoversExactlyTheClaim ==
    [][(createPc = "idle" /\ createPc' = "created") =>
          /\ attestation'.signature.msg = SignedMembersOf(attestation')
          /\ \A b \in {SignedBy(TrimText(text'), Tracker', "null", now')} :
                /\ SignedFields(b) = SignedFields(attestation')
                /\ b.signature = attestation'.signature
          /\ \A b \in {SignedBy(TrimText(text') \o <<"a">>, Tracker', userSelectedProfile', now'),
                        SignedBy(TrimText(text'), Tracker', userSelectedProfile', now' + 1)} :
                /\ SignedFields(b) # SignedFields(attestation')
                /\ b.signature.msg # attestation'.signature.msg]_vars

\* a proof with a process digest was created under the declared profile
\* AI-generated, which another selection would have replaced
C15_Witness ==
    /\ createPc = "created"
    /\ attestation.hasProcessDigest
    /\ Len(attestation.signature.msg) = 5
    /\ userSelectedProfile = "AI-generated"
    /\ attestation.assistanceProfile = "AI-generated"
    /\ resolveAssistanceProfile("null", attestation.processMetrics) # "AI-generated"

\* the errors verifyProof reports when the registry gave no answer about
\* the proof: the host was unreachable, the HTTP status was an error other
\* than 404, or the request threw
NetworkFailures == {"HTTP 500", "Cannot connect to registry", "Failed to verify proof"}

\* C16: a network failure of verifyProof is not turned into a result with
\* valid false, and is not shown with the INVALID badge and the
\* indeterminate verdict of a proof the registry reports as not found.
C16_NetworkFailureIsNotInvalid ==
    (result.error \in NetworkFailures) =>
        /\ result.valid # "false"
        /\ (vPc = "shown" =>
               ~(shown.badge = "INVALID" /\ shown.verdict.type = "indeterminate"))

\* C17: every registry call that awaits a node eventually completes, with
\* a result or a timeout error, even when the node never answers; and the
\* loading state set for it is eventually cleared.
C17_EveryCallCompletes ==
    /\ (netPc = "awaiting") ~> (netPc = "settled")
    /\ loading ~> ~loading

\* C18: checkAllNodesStatus returns one entry per discovered node, in
\* discovery order, whatever the outcomes of the probes; the entry of a
\* node whose probe failed has online false; each entry is the one the
\* node would get if it were probed alone.
C18_OneEntryPerNodeInOrder ==
    nodeStatuses.called =>
        /\ Len(nodeStatuses.entries) = Len(nodeStatuses.nodes)
        /\ \A i \in 1..Len(nodeStatuses.nodes) :
              /\ nodeStatuses.entries[i]
                    = checkAllNodesStatus(<<nodeStatuses.nodes[i]>>, <<nodeStatuses.outcomes[i]>>)[1]
              /\ nodeStatuses.outcomes[i] \in {"httpError", "fetchFailed", "threw"} =>
                    /\ nodeStatuses.entries[i].online = FALSE
                    /\ nodeStatuses.entries[i].id = nodeStatuses.nodes[i].id
                    /\ nodeStatuses.entries[i].url = nodeStatuses.nodes[i].url

\* four nodes were discovered; the probe of the second was rejected and
\* the probes of its neighbours succeeded
C18_Witness ==
    /\ nodeStatuses.called
    /\ Len(nodeStatuses.nodes) = 4
    /\ nodeStatuses.outcomes[2] = "threw"
    /\ nodeStatuses.outcomes[1] = "ok"
    /\ nodeStatuses.outcomes[3] = "ok"
    /\ nodeStatuses.entries[2].online = FALSE
    /\ nodeStatuses.entries[3].online = TRUE

\* the same hash with and without its 0x prefix
WithPrefix(h) == IF normalizedHash(h) = h THEN <<"0", "x">> \o h ELSE h

\* C19: a verification call issues the same requests for a hash and for
\* the hash with the 0x prefix in front.
C19_PrefixMakesNoDifference ==
    (netPc # "idle" /\ netCall.hash # <<>>) =>
        netCall.requests
            = requestsOf([client |-> netCall.client, method |-> netCall.method],
                         WithPrefix(normalizedHash(netCall.hash)))

\* C20: in a started session with fewer than two recorded events
\* generateDigest returns a digest whose metrics have entropy 0 and
\* temporal coherence 0 and which does not meet the thresholds; a proof
\* created in such a session carries these metrics.
C20_FewEventsDigest ==
    /\ []((isTracking /\ sessionStart # NullTime /\ Len(inputEvents) < 2) =>
            \A d \in {generateDigest(Tracker, now)} :
                /\ ~d.isNull
                /\ d.metrics.entropy = 0
                /\ d.metrics.temporalCoherence = 0
                /\ d.metrics.inputEvents = Len(inputEvents)
                /\ ~d.meetsThresholds
                /\ ~d.metrics.meetsThresholds)
    /\ [][(createPc = "idle" /\ createPc' = "created" /\ Len(inputEvents') < 2) =>
            /\ attestation'.hasProcessDigest
            /\ attestation'.processDigest = generateDigest(Tracker', now').digest
            /\ attestation'.processMetrics.entropy = 0
            /\ attestation'.processMetrics.temporalCoherence = 0
            /\ ~attestation'.processMetrics.meetsThresholds]_vars

\* a proof was created after one recorded event, in a session that had
\* lasted the minimum duration
C20_Witness ==
    /\ createPc = "created"
    /\ Len(inputEvents) = 1
    /\ now - sessionStart >= thresholds.minDuration
    /\ attestation.hasProcessDigest
    /\ attestation.processMetrics.inputEvents = 1
    /\ attestation.processMetrics.duration >= thresholds.minDuration
    /\ attestation.processMetrics.entropy = 0
    /\ ~attestation.processMetrics.meetsThresholds

\* C21: a proof created without the declaration AI-assisted or
\* AI-generated is human-only when its metrics meet the thresholds;
\* otherwise AI-generated exactly when entropy is below 0.1, duration below
\* 5000 ms and there are fewer than 5 events, and AI-assisted if not;
\* without metrics it is the declared value if there is one and human-only
\* if not.  The profile is always one of the three.
C21_ProfileResolution ==
    /\ (createPc = "created" /\ userSelectedProfile \notin {"AI-assisted", "AI-generated"}) =>
          LET m == attestation.processMetrics
          IN  /\ ~m.isNull
              /\ m.meetsThresholds => attestation.assistanceProfile = "human-only"
              /\ ~m.meetsThresholds =>
                    IF m.entropy < 1000 /\ m.duration < 5000 /\ m.inputEvents < 5
                    THEN attestation.assistanceProfile = "AI-generated"
                    ELSE attestation.assistanceProfile = "AI-assisted"
    /\ resolveAssistanceProfile("null", NoProcessMetrics) = "human-only"
    /\ resolveAssistanceProfile("human-only", NoProcessMetrics) = "human-only"
    /\ createPc = "created" =>
          attestation.assistanceProfile \in {"human-only", "AI-assisted", "AI-generated"}

\* a proof made without a declaration after five evenly spaced events:
\* entropy and duration are low, the event count is not, so it is
\* AI-assisted
C21_Witness ==
    /\ createPc = "created"
    /\ userSelectedProfile = "null"
    /\ ~attestation.processMetrics.meetsThresholds
    /\ attestation.processMetrics.entropy < 1000
    /\ attestation.processMetrics.duration < 5000
    /\ attestation.processMetrics.inputEvents >= 5
    /\ attestation.assistanceProfile = "AI-assisted"

\* C22: a proof created after the user selected a profile, human-only
\* included, carries the selected profile, whatever the process metrics.
C22_SelectionNeverOverridden ==
    (createPc = "created" /\ userSelectedProfile # "null")
        => attestation.assistanceProfile = userSelectedProfile

\* C23: the process metrics and digest of a proof are computed only from
\* what happened after the previous proof was created: the session of the
\* new proof does not start before, and none of its events was recorded
\* before, the time of the previous one.
C23_SessionResetPerProof ==
    [][(createPc = "idle" /\ createPc' = "created" /\ attestation # NoAttestation) =>
          /\ sessionStart' >= attestation.timestamp
          /\ \A i \in 1..Len(inputEvents') : inputEvents'[i].timestamp >= attestation.timestamp
          /\ attestation'.processMetrics.inputEvents
                = Cardinality({i \in 1..Len(inputEvents') :
                                  inputEvents'[i].timestamp >= attestation.timestamp})
          /\ attestation'.processMetrics.duration <= attestation'.timestamp - attestation.timestamp]_vars

C25_SignedByTheKeyOfTheDid ==
    (createPc = "created" /\ submitCalls > 0) =>
        /\ attestation.did = generateDID(attestation.signature.by)
        /\ attestation.signature.msg[2].value = attestation.did

\* C26: every registry request of a performVerification run goes to the
\* registry that was selected when the run read the selector.
C26_OneRegistryPerRun ==
    [][\A r \in 1..Len(runs) :
          (runs[r].pc = "calling" /\ runs'[r].next # runs[r].next) =>
              clientUrl = stripTrailingSlash(runs[r].registry)]_vars

\* C27: when all verifications that were started have finished, the page
\* shows the result and the hash of the one started last.
C27_LastStartedIsShown ==
    (runs # <<>> /\ \A r \in 1..Len(runs) : runs[r].pc = "done") =>
        /\ page.run = Len(runs)
        /\ page.hash = runs[Len(runs)].hash

\* C28: the environmentAttestation of a created attestation contains
\* 'human-only' only when its assistanceProfile is 'human-only'.
C28_HumanOnlyMarkerMatchesProfile ==
    (createPc = "created" /\
     \E i \in 1..Len(attestation.environmentAttestation) :
        attestation.environmentAttestation[i] = "human-only") =>
        attestation.assistanceProfile = "human-only"

\* C29: after discovery the list holds both default nodes with their
\* built-in URLs, and off localhost the default registry is https://gdn.sh.
C29_DefaultNodesKeepTheirUrls ==
    discoveredNodes # <<>> =>
        /\ \A d \in 1..Len(defaultNodes) :
              \E i \in 1..Len(discoveredNodes) : discoveredNodes[i] = defaultNodes[d]
        /\ ~IsLocalhostPage =>
              getDefaultRegistry(discoveredNodes, FALSE) = "https://gdn.sh"

\* C30: the hash createProof computes for a text is the hash the verifier
\* computes for it on the content tab and, for a text file holding it, on
\* the file tab.
C30_SameHashInAllThreePlaces ==
    (creatorHash.called /\ ~creatorHash.refused) =>
        /\ contentTabHash.called => contentTabHash.hash = creatorHash.hash
        /\ (fileTabHash.called /\ fileTabHash.saysText) =>
               fileTabHash.hash = creatorHash.hash

====
